---- MODULE Spec2Model ----
(***************************************************************************)
(* A model of libMusDoom: the public emulator API, the MUS player, the     *)
(* event decoder process_event, the 18-voice pool and the OPL register     *)
(* programming of src/src/libmusdoom.c.                                    *)
(*                                                                         *)
(* C ints used as flags are modelled as BOOLEAN; pointers are modelled as  *)
(* indices (a channel pointer is the channel's index, an instrument        *)
(* pointer is the slot of the instrument in the player's two arrays) with  *)
(* NULL as the null pointer.  The chip emulator itself (Nuked OPL3) is     *)
(* outside the model: the chip is the array of the last value written to   *)
(* each of its registers.                                                  *)
(***************************************************************************)
EXTENDS Integers, Sequences, FiniteSets, TLC

(***************************************************************************)
(* Program constants.                                                      *)
(***************************************************************************)
OPL_VOICES == 18
MIDI_CHANNELS_PER_TRACK == 16
MIDI_PERCUSSION_CHAN == 9
MUS_PERCUSSION_CHAN == 15
TICK_HZ == 140
MUS_HEADER_SIZE == 14
NULL == -1

MUS_EVENT_RELEASE_NOTE == 0
MUS_EVENT_PLAY_NOTE == 16
MUS_EVENT_PITCH_BEND == 32
MUS_EVENT_SYSTEM_EVENT == 48
MUS_EVENT_CONTROLLER == 64
MUS_EVENT_END_OF_SCORE == 96

OPL_REGS_TREMOLO == 32
OPL_REGS_LEVEL == 64
OPL_REGS_ATTACK == 96
OPL_REGS_SUSTAIN == 128
OPL_REGS_FEEDBACK == 192
OPL_REGS_WAVEFORM == 224
OPL_REGS_FREQ_1 == 160
OPL_REGS_FREQ_2 == 176

GENMIDI_FLAG_FIXED == 1
GENMIDI_FLAG_2VOICE == 4

MUSDOOM_OK == 0
MUSDOOM_ERR_INVALID_PARAM == -1
MUSDOOM_ERR_INVALID_DATA == -3
MUSDOOM_ERR_NOT_INITIALIZED == -4

(***************************************************************************)
(* Bit operations of C on non-negative integers.                           *)
(***************************************************************************)
RECURSIVE BitAnd(_, _)
BitAnd(a, b) ==
  IF a = 0 \/ b = 0 THEN 0
  ELSE (a % 2) * (b % 2) + 2 * BitAnd(a \div 2, b \div 2)

RECURSIVE BitOr(_, _)
BitOr(a, b) ==
  IF a = 0 THEN b
  ELSE IF b = 0 THEN a
  ELSE (IF a % 2 = 1 \/ b % 2 = 1 THEN 1 ELSE 0) + 2 * BitOr(a \div 2, b \div 2)

\* x >> n
Shr(x, n) == x \div (2 ^ n)

(***************************************************************************)
(* The two lookup tables, copied from the source (0-based in C, 1-based    *)
(* here: table[i] of the source is table[i + 1]).                          *)
(***************************************************************************)
volume_mapping_table ==
  <<
    0, 1, 3, 5, 6, 8, 10, 11, 13, 14, 16, 17, 19, 20, 22, 23,
    25, 26, 27, 29, 30, 32, 33, 34, 36, 37, 39, 41, 43, 45, 47, 49,
    50, 52, 54, 55, 57, 59, 60, 61, 63, 64, 66, 67, 68, 69, 71, 72,
    73, 74, 75, 76, 77, 79, 80, 81, 82, 83, 84, 84, 85, 86, 87, 88,
    89, 90, 91, 92, 92, 93, 94, 95, 96, 96, 97, 98, 99, 99, 100, 101,
    101, 102, 103, 103, 104, 105, 105, 106, 107, 107, 108, 109, 109, 110, 110, 111,
    112, 112, 113, 113, 114, 114, 115, 115, 116, 117, 117, 118, 118, 119, 119, 120,
    120, 121, 121, 122, 122, 123, 123, 123, 124, 124, 125, 125, 126, 126, 127, 127
  >>

frequency_curve ==
  <<
    307, 307, 308, 308, 309, 310, 310, 311, 311, 312, 312, 313, 313, 314, 315, 315,
    316, 316, 317, 317, 318, 319, 319, 320, 320, 321, 322, 322, 323, 323, 324, 324,
    325, 326, 326, 327, 327, 328, 329, 329, 330, 330, 331, 332, 332, 333, 333, 334,
    335, 335, 336, 336, 337, 338, 338, 339, 339, 340, 341, 341, 342, 343, 343, 344,
    344, 345, 346, 346, 347, 347, 348, 349, 349, 350, 351, 351, 352, 353, 353, 354,
    354, 355, 356, 356, 357, 358, 358, 359, 360, 360, 361, 362, 362, 363, 364, 364,
    365, 366, 366, 367, 368, 368, 369, 370, 370, 371, 372, 372, 373, 374, 374, 375,
    376, 376, 377, 378, 378, 379, 380, 380, 381, 382, 382, 383, 384, 385, 385, 386,
    387, 387, 388, 389, 389, 390, 391, 392, 392, 393, 394, 394, 395, 396, 397, 397,
    398, 399, 399, 400, 401, 402, 402, 403, 404, 404, 405, 406, 407, 407, 408, 409,
    410, 410, 411, 412, 413, 413, 414, 415, 416, 416, 417, 418, 419, 419, 420, 421,
    422, 422, 423, 424, 425, 425, 426, 427, 428, 429, 429, 430, 431, 432, 432, 433,
    434, 435, 436, 436, 437, 438, 439, 440, 440, 441, 442, 443, 444, 444, 445, 446,
    447, 448, 448, 449, 450, 451, 452, 452, 453, 454, 455, 456, 457, 457, 458, 459,
    460, 461, 462, 462, 463, 464, 465, 466, 467, 467, 468, 469, 470, 471, 472, 472,
    473, 474, 475, 476, 477, 478, 478, 479, 480, 481, 482, 483, 484, 485, 485, 486,
    487, 488, 489, 490, 491, 492, 493, 493, 494, 495, 496, 497, 498, 499, 500, 501,
    502, 502, 503, 504, 505, 506, 507, 508, 509, 510, 511, 512, 513, 513, 514, 515,
    516, 517, 518, 519, 520, 521, 522, 523, 524, 525, 526, 527, 528, 528, 529, 530,
    531, 532, 533, 534, 535, 536, 537, 538, 539, 540, 541, 542, 543, 544, 545, 546,
    547, 548, 549, 550, 551, 552, 553, 554, 555, 556, 557, 558, 559, 560, 561, 562,
    563, 564, 565, 566, 567, 568, 569, 570, 571, 572, 573, 574, 575, 576, 577, 578,
    580, 581, 582, 583, 584, 585, 586, 587, 588, 589, 590, 591, 592, 593, 594, 595,
    596, 598, 599, 600, 601, 602, 603, 604, 605, 606, 607, 608, 610, 611, 612, 613,
    614, 615, 616, 617, 618, 620, 621, 622, 623, 624, 625, 626, 627, 629, 630, 631,
    632, 633, 634, 635, 637, 638, 639, 640, 641, 642, 644, 645, 646, 647, 648, 649,
    651, 652, 653, 654, 655, 656, 658, 659, 660, 661, 662, 664, 665, 666, 667, 668,
    670, 671, 672, 673, 674, 676, 677, 678, 679, 681, 682, 683, 684, 686, 687, 688,
    689, 690, 692, 693, 694, 695, 697, 698, 699, 701, 702, 703, 704, 706, 707, 708,
    709, 711, 712, 713, 715, 716, 717, 718, 720, 721, 722, 724, 725, 726, 728, 729,
    730, 732, 733, 734, 736, 737, 738, 740, 741, 742, 744, 745, 746, 748, 749, 750,
    752, 753, 754, 756, 757, 758, 760, 761, 763, 764, 765, 767, 768, 770, 771, 772,
    774, 775, 777, 778, 779, 781, 782, 784, 785, 786, 788, 789, 791, 792, 794, 795,
    796, 798, 799, 801, 802, 804, 805, 807, 808, 809, 811, 812, 814, 815, 817, 818,
    820, 821, 823, 824, 826, 827, 829, 830, 832, 833, 835, 836, 838, 839, 841, 842,
    844, 845, 847, 848, 850, 851, 853, 855, 856, 858, 859, 861, 862, 864, 865, 867,
    869, 870, 872, 873, 875, 876, 878, 880, 881, 883, 884, 886, 888, 889, 891, 892,
    894, 896, 897, 899, 900, 902, 904, 905, 907, 909, 910, 912, 914, 915, 917, 919,
    920, 922, 924, 925, 927, 929, 930, 932, 934, 935, 937, 939, 940, 942, 944, 945,
    947, 949, 951, 952, 954, 956, 957, 959, 961, 963, 964, 966, 968, 970, 971, 973,
    975, 977, 978, 980, 982, 984, 986, 987, 989, 991, 993, 995, 996, 998, 1000, 1002,
    1004, 1005, 1007, 1009, 1011, 1013, 1014, 1016, 1018, 1020, 1022, 876
  >>

voice_operators ==
  << << 0, 1, 2, 8, 9, 10, 16, 17, 18 >>,
     << 3, 4, 5, 11, 12, 13, 19, 20, 21 >> >>

mus_to_midi_ctrl == << 0, 0, 1, 7, 10, 11, 91, 93, 64, 67, 120, 123, 126, 127, 121, 0 >>

(***************************************************************************)
(* GENMIDI instruments (genmidi_op_t, genmidi_voice_t, genmidi_instr_t).   *)
(* An instrument pointer is the slot it points to: slot p in 0..255 is     *)
(* player->instruments[p], slot 256 + j is player->percussion[j].  Both    *)
(* arrays have 256 entries and are zeroed by calloc.                       *)
(***************************************************************************)
INSTR_ARRAY_LEN == 256

ZeroOp == [tremolo |-> 0, attack |-> 0, sustain |-> 0, waveform |-> 0, scale |-> 0, level |-> 0]

ZeroVoice == [modulator |-> ZeroOp, feedback |-> 0, carrier |-> ZeroOp, base_note_offset |-> 0]

ZeroInstr == [flags |-> 0, fine_tuning |-> 0, fixed_note |-> 0, voices |-> << ZeroVoice, ZeroVoice >>]

\* *(instr) for an instrument pointer: the entry of the array it points into.
\* Entries the loaded bank does not set are still zero.  Applying it to NULL
\* is an error of the model, as the dereference is in C.
InstrData(instruments, instr) ==
  IF instr \in DOMAIN instruments THEN instruments[instr]
  ELSE [i \in 0 .. (2 * INSTR_ARRAY_LEN - 1) |-> ZeroInstr][instr]

\* &player->percussion[perc_index]
PercSlot(perc_index) == INSTR_ARRAY_LEN + perc_index

(***************************************************************************)
(* The part of the player the event handlers work on, as one record m:     *)
(*   m.voices, m.channels, m.instruments  the player's arrays              *)
(*   m.pl                                 the player's scalar fields       *)
(*   m.w    the register writes issued so far by the running handler       *)
(*   m.on   the voices the running handler has keyed on                    *)
(*   m.steals  the calls of replace_voice the running handler has made     *)
(* and, for the record of what the handler did (read by no handler):       *)
(*   m.rd     the highest offset of the MUS buffer the handler read        *)
(*   m.delay  the delay the handler read, in ticks                         *)
(***************************************************************************)
Voices == 0 .. (OPL_VOICES - 1)
Channels == 0 .. (MIDI_CHANNELS_PER_TRACK - 1)

write_opl_reg(m, reg, value) ==
  [m EXCEPT !.w = Append(@, << reg % 65536, value % 256 >>)]

\* load_operator without its max_level: the level of the data, always
load_operator_level(m, vi, volume, operator_idx, data, max_level) ==
  LET level == BitOr(data.scale, data.level)
      m0 == [m EXCEPT !.voices[vi][volume] = level]
      m1 == write_opl_reg(m0, OPL_REGS_LEVEL + operator_idx, level)
      m2 == write_opl_reg(m1, OPL_REGS_TREMOLO + operator_idx, data.tremolo)
      m3 == write_opl_reg(m2, OPL_REGS_ATTACK + operator_idx, data.attack)
      m4 == write_opl_reg(m3, OPL_REGS_SUSTAIN + operator_idx, data.sustain)
  IN  write_opl_reg(m4, OPL_REGS_WAVEFORM + operator_idx, data.waveform)

\* volume is the voice field (car_volume or mod_volume) the level is stored to
load_operator(m, vi, volume, operator_idx, data, max_level) ==
  LET level == IF max_level THEN BitOr(data.scale, 63) ELSE BitOr(data.scale, data.level)
      m0 == [m EXCEPT !.voices[vi][volume] = level]
      m1 == write_opl_reg(m0, OPL_REGS_LEVEL + operator_idx, level)
      m2 == write_opl_reg(m1, OPL_REGS_TREMOLO + operator_idx, data.tremolo)
      m3 == write_opl_reg(m2, OPL_REGS_ATTACK + operator_idx, data.attack)
      m4 == write_opl_reg(m3, OPL_REGS_SUSTAIN + operator_idx, data.sustain)
  IN  write_opl_reg(m4, OPL_REGS_WAVEFORM + operator_idx, data.waveform)

\* set_voice_instrument without the test of the instrument already set
set_voice_instrument_again(m, vi, instr, instr_voice) ==
  LET voice == m.voices[vi]
      m0 == [m EXCEPT !.voices[vi].current_instr = instr,
                      !.voices[vi].current_instr_voice = instr_voice]
      data == InstrData(m.instruments, instr).voices[instr_voice + 1]
      modulating == BitAnd(data.feedback, 1) = 0
      m1 == load_operator(m0, vi, "car_volume", BitOr(voice.op2, voice.array),
                          data.carrier, TRUE)
      m2 == load_operator(m1, vi, "mod_volume", BitOr(voice.op1, voice.array),
                          data.modulator, ~modulating)
  IN  write_opl_reg(m2, BitOr(OPL_REGS_FEEDBACK + voice.index, voice.array),
                    BitOr(data.feedback, voice.reg_pan))

set_voice_instrument(m, vi, instr, instr_voice) ==
  LET voice == m.voices[vi]
  IN  IF voice.current_instr = instr /\ voice.current_instr_voice = instr_voice
      THEN m
      ELSE
        LET m0 == [m EXCEPT !.voices[vi].current_instr = instr,
                            !.voices[vi].current_instr_voice = instr_voice]
            data == InstrData(m.instruments, instr).voices[instr_voice + 1]
            modulating == BitAnd(data.feedback, 1) = 0
            m1 == load_operator(m0, vi, "car_volume", BitOr(voice.op2, voice.array),
                                data.carrier, TRUE)
            m2 == load_operator(m1, vi, "mod_volume", BitOr(voice.op1, voice.array),
                                data.modulator, ~modulating)
        IN  write_opl_reg(m2, BitOr(OPL_REGS_FEEDBACK + voice.index, voice.array),
                          BitOr(data.feedback, voice.reg_pan))

set_voice_volume(m, vi, volume) ==
  LET m0 == [m EXCEPT !.voices[vi].note_volume = volume]
      voice == [m.voices[vi] EXCEPT !.note_volume = volume]
      opl_voice == InstrData(m.instruments, voice.current_instr).voices[voice.current_instr_voice + 1]
      midi_volume == 2 * (volume_mapping_table[m.channels[voice.channel].volume + 1] + 1)
      full == Shr(volume_mapping_table[voice.note_volume + 1] * midi_volume, 9)
      full_volume == IF full > 63 THEN 63 ELSE full
      car_volume == 63 - full_volume
  IN  IF car_volume # BitAnd(voice.car_volume, 63)
      THEN
        LET car == BitOr(car_volume, BitAnd(voice.car_volume, 192))
            m1 == [m0 EXCEPT !.voices[vi].car_volume = car]
            m2 == write_opl_reg(m1, BitOr(OPL_REGS_LEVEL + voice.op2, voice.array), car)
        IN  IF BitAnd(opl_voice.feedback, 1) # 0 /\ opl_voice.modulator.level # 63
            THEN
              LET lvl == IF opl_voice.modulator.level < car_volume
                         THEN car_volume ELSE opl_voice.modulator.level
                  mod_volume == BitOr(lvl, BitAnd(voice.mod_volume, 192))
              IN  IF mod_volume # voice.mod_volume
                  THEN write_opl_reg([m2 EXCEPT !.voices[vi].mod_volume = mod_volume],
                                     BitOr(OPL_REGS_LEVEL + voice.op1, voice.array),
                                     BitOr(mod_volume, BitAnd(opl_voice.modulator.scale, 192)))
                  ELSE m2
            ELSE m2
      ELSE m0

set_voice_pan(m, vi, reg_pan) ==
  LET voice == m.voices[vi]
  IN  IF voice.reg_pan = reg_pan \/ voice.current_instr = NULL
      THEN m
      ELSE
        LET data == InstrData(m.instruments, voice.current_instr).voices[voice.current_instr_voice + 1]
        IN  write_opl_reg([m EXCEPT !.voices[vi].reg_pan = reg_pan],
                          BitOr(OPL_REGS_FEEDBACK + voice.index, voice.array),
                          BitOr(data.feedback, reg_pan))

\* for (i = 0; i < 18; i++) if (voices[i].in_use && voices[i].channel == channel)
\*     set_voice_volume(player, &voices[i], voices[i].note_volume);
RECURSIVE VolumeLoop(_, _, _)
VolumeLoop(m, channel, i) ==
  IF i >= OPL_VOICES THEN m
  ELSE IF m.voices[i].in_use /\ m.voices[i].channel = channel
       THEN VolumeLoop(set_voice_volume(m, i, m.voices[i].note_volume), channel, i + 1)
       ELSE VolumeLoop(m, channel, i + 1)

\* set_channel_volume without the clamp
set_channel_volume_unclamped(m, channel, volume) ==
  VolumeLoop([m EXCEPT !.channels[channel].volume = volume], channel, 0)

set_channel_volume(m, channel, volume) ==
  LET v == IF volume > 127 THEN 127 ELSE volume
  IN  VolumeLoop([m EXCEPT !.channels[channel].volume = v], channel, 0)

RECURSIVE PanLoop(_, _, _, _)
PanLoop(m, channel, reg_pan, i) ==
  IF i >= OPL_VOICES THEN m
  ELSE IF m.voices[i].in_use /\ m.voices[i].channel = channel
       THEN PanLoop(set_voice_pan(m, i, reg_pan), channel, reg_pan, i + 1)
       ELSE PanLoop(m, channel, reg_pan, i + 1)

set_channel_pan(m, channel, pan) ==
  LET reg_pan == IF pan >= 96 THEN 16 ELSE IF pan <= 48 THEN 32 ELSE 48
  IN  IF m.channels[channel].pan = reg_pan THEN m
      ELSE PanLoop([m EXCEPT !.channels[channel].pan = reg_pan], channel, reg_pan, 0)

\* while (note < 0) note += 12;  while (note > 95) note -= 12;
\* the first loop ends at the first of note + 12, note + 24, ... that is not
\* negative, which is note modulo 12; the second at the first of note - 12,
\* note - 24, ... that is at most 95, which is 84 + note modulo 12
NoteIntoRange(note) ==
  IF note < 0 THEN note % 12
  ELSE IF note > 95 THEN 84 + (note % 12)
  ELSE note

\* freq_index of frequency_for_voice, for voice->note, *voice->current_instr,
\* voice->current_instr_voice and voice->channel->bend
FreqIndex(voice_note, instr, instr_voice, bend) ==
  LET gm_voice == instr.voices[instr_voice + 1]
      note0 == IF BitAnd(instr.flags, GENMIDI_FLAG_FIXED) = 0
               THEN voice_note + gm_voice.base_note_offset ELSE voice_note
      note == NoteIntoRange(note0)
      idx0 == 64 + 32 * note + bend
      idx1 == IF instr_voice # 0
              THEN idx0 + (instr.fine_tuning \div 2) - 64 ELSE idx0
  IN  IF idx1 < 0 THEN 0 ELSE idx1

\* the index at which frequency_for_voice reads frequency_curve
CurveIndex(freq_index) ==
  IF freq_index < 284 THEN freq_index ELSE ((freq_index - 284) % (12 * 32)) + 284

Octave(freq_index) ==
  LET oct == (freq_index - 284) \div (12 * 32)
  IN  IF freq_index < 284 THEN 0 ELSE IF oct >= 7 THEN 7 ELSE oct

\* FreqValue with octave << 11
FreqValueShifted(freq_index) ==
  IF freq_index < 284 THEN frequency_curve[freq_index + 1]
  ELSE BitOr(frequency_curve[CurveIndex(freq_index) + 1], Octave(freq_index) * 2048)

\* what frequency_for_voice returns for a freq_index
FreqValue(freq_index) ==
  IF freq_index < 284 THEN frequency_curve[freq_index + 1]
  ELSE BitOr(frequency_curve[CurveIndex(freq_index) + 1], Octave(freq_index) * 1024)

frequency_for_voice(m, vi) ==
  FreqValue(FreqIndex(m.voices[vi].note,
                      InstrData(m.instruments, m.voices[vi].current_instr),
                      m.voices[vi].current_instr_voice,
                      m.channels[m.voices[vi].channel].bend))

update_voice_frequency(m, vi) ==
  LET voice == m.voices[vi]
      freq == frequency_for_voice(m, vi)
  IN  IF voice.freq # freq
      THEN
        LET m1 == write_opl_reg(m, BitOr(OPL_REGS_FREQ_1 + voice.index, voice.array),
                                BitAnd(freq, 255))
            m2 == write_opl_reg(m1, BitOr(OPL_REGS_FREQ_2 + voice.index, voice.array),
                                BitOr(Shr(freq, 8), 32))
        IN  [m2 EXCEPT !.voices[vi].freq = freq]
      ELSE m

\* voice_key_off that writes the key-on bit back
voice_key_off_keyed(m, vi) ==
  write_opl_reg(m, BitOr(OPL_REGS_FREQ_2 + m.voices[vi].index, m.voices[vi].array),
                BitOr(Shr(m.voices[vi].freq, 8), 32))

voice_key_off(m, vi) ==
  write_opl_reg(m, BitOr(OPL_REGS_FREQ_2 + m.voices[vi].index, m.voices[vi].array),
                Shr(m.voices[vi].freq, 8))

(***************************************************************************)
(* The voice pool.                                                         *)
(***************************************************************************)
\* FirstFree scanning from the last voice down
FirstFreeDown(voices) ==
  IF \E i \in Voices : ~voices[i].in_use
  THEN CHOOSE i \in Voices :
         ~voices[i].in_use /\ \A j \in (i + 1) .. (OPL_VOICES - 1) : voices[j].in_use
  ELSE NULL

\* the first voice that is not in use, or NULL
FirstFree(voices) ==
  IF \E i \in Voices : ~voices[i].in_use
  THEN CHOOSE i \in Voices : ~voices[i].in_use /\ \A j \in 0 .. (i - 1) : voices[j].in_use
  ELSE NULL

\* returns the player and the voice (an index, or NULL)
allocate_voice(m) ==
  LET i == FirstFree(m.voices)
  IN  IF i = NULL THEN [m |-> m, v |-> NULL]
      ELSE [m |-> [m EXCEPT !.voices[i].in_use = TRUE], v |-> i]

\* voice->channel ? (int)(voice->channel - player->channels) : 0
ChannelIdx(channel) == IF channel # NULL THEN channel ELSE 0

\* ReplaceScan with > for >=: a tie keeps the earlier voice
RECURSIVE ReplaceScanStrict(_, _, _)
ReplaceScanStrict(voices, i, result) ==
  IF i >= OPL_VOICES THEN result
  ELSE IF ~voices[i].in_use THEN ReplaceScanStrict(voices, i + 1, result)
  ELSE IF voices[i].current_instr_voice # 0 THEN i
  ELSE IF ChannelIdx(voices[i].channel) > ChannelIdx(voices[result].channel)
       THEN ReplaceScanStrict(voices, i + 1, i)
       ELSE ReplaceScanStrict(voices, i + 1, result)

\* the for loop of replace_voice from voice i on, with the candidate so far
RECURSIVE ReplaceScan(_, _, _)
ReplaceScan(voices, i, result) ==
  IF i >= OPL_VOICES THEN result
  ELSE IF ~voices[i].in_use THEN ReplaceScan(voices, i + 1, result)
  ELSE IF voices[i].current_instr_voice # 0 THEN i
  ELSE IF ChannelIdx(voices[i].channel) >= ChannelIdx(voices[result].channel)
       THEN ReplaceScan(voices, i + 1, i)
       ELSE ReplaceScan(voices, i + 1, result)

\* if (voice->channel) { voice->channel->active = 0; voice->channel->voice = -1; }
ChannelForget(m, channel) ==
  IF channel # NULL
  THEN [m EXCEPT !.channels[channel].active = FALSE, !.channels[channel].voice = -1]
  ELSE m

\* what a call of replace_voice found and did: the voices as they were (in
\* use or not, the owning channel, the voice of the instrument, the note),
\* the voice it chose, the voices in use when it returned, the instrument
\* pointer it left in the chosen voice and, once voice_key_on has allocated
\* again, the number of voices in use
StealRecord(voices, result, after) ==
  [pool |-> [i \in Voices |-> [in_use |-> voices[i].in_use,
                               channel |-> voices[i].channel,
                               current_instr_voice |-> voices[i].current_instr_voice,
                               note |-> voices[i].note]],
   victim |-> result,
   left |-> { i \in Voices : after[i].in_use },
   instr |-> after[result].current_instr,
   used |-> -1]

ReplaceResult(m, result) ==
  LET r == IF m.voices[result].in_use
           THEN LET m1 == voice_key_off(m, result)
                    m2 == ChannelForget(m1, m.voices[result].channel)
                IN  [m2 EXCEPT !.voices[result].in_use = FALSE,
                               !.voices[result].channel = NULL]
           ELSE m
  IN  [r EXCEPT !.steals = Append(@, StealRecord(m.voices, result, r.voices))]

replace_voice(m, for_channel) == ReplaceResult(m, ReplaceScan(m.voices, 0, 0))

release_voice(m, vi) ==
  IF vi = NULL \/ ~m.voices[vi].in_use THEN m
  ELSE LET m1 == voice_key_off(m, vi)
           m2 == ChannelForget(m1, m.voices[vi].channel)
       IN  [m2 EXCEPT !.voices[vi].in_use = FALSE,
                      !.voices[vi].channel = NULL,
                      !.voices[vi].current_instr = NULL]

\* KeyOffAndFree without voice->channel = NULL
KeyOffKeepChannel(m, i) ==
  [voice_key_off(m, i) EXCEPT !.voices[i].in_use = FALSE,
                              !.voices[i].current_instr = NULL]

\* voice_key_off and the three assignments that free the slot
KeyOffAndFree(m, i) ==
  [voice_key_off(m, i) EXCEPT !.voices[i].in_use = FALSE,
                              !.voices[i].channel = NULL,
                              !.voices[i].current_instr = NULL]

\* ReleaseAllLoop with a break after the first voice of the channel
RECURSIVE ReleaseAllFirst(_, _, _)
ReleaseAllFirst(m, channel, i) ==
  IF i >= OPL_VOICES THEN m
  ELSE IF m.voices[i].in_use /\ m.voices[i].channel = channel
       THEN KeyOffAndFree(m, i)
       ELSE ReleaseAllFirst(m, channel, i + 1)

RECURSIVE ReleaseAllLoop(_, _, _)
ReleaseAllLoop(m, channel, i) ==
  IF i >= OPL_VOICES THEN m
  ELSE IF m.voices[i].in_use /\ m.voices[i].channel = channel
       THEN ReleaseAllLoop(KeyOffAndFree(m, i), channel, i + 1)
       ELSE ReleaseAllLoop(m, channel, i + 1)

release_all_voices_for_channel(m, channel) ==
  [ReleaseAllLoop(m, channel, 0) EXCEPT !.channels[channel].active = FALSE,
                                        !.channels[channel].voice = -1]

\* the set-up of one voice in voice_key_on; instr_voice is 0 for the first
\* voice and 1 for the second voice of a double-voice instrument
KeyOnVoice(m, vi, channel, instrument, instr_voice, note, key, volume) ==
  LET instr == InstrData(m.instruments, instrument)
      m0 == [m EXCEPT !.voices[vi].channel = channel,
                      !.voices[vi].key = key,
                      !.voices[vi].note =
                          IF BitAnd(instr.flags, GENMIDI_FLAG_FIXED) # 0
                          THEN instr.fixed_note ELSE note,
                      !.voices[vi].reg_pan = m.channels[channel].pan,
                      !.on = @ \cup {vi}]
      m1 == set_voice_instrument(m0, vi, instrument, instr_voice)
      m2 == set_voice_volume(m1, vi, volume)
  IN  update_voice_frequency([m2 EXCEPT !.voices[vi].freq = 0], vi)

\* voice = allocate_voice(player);
\* if (!voice) { replace_voice(player, channel); voice = allocate_voice(player); }
\* where a is the result of the first allocate_voice
Reallocated(a) ==
  [a EXCEPT !.m.steals[Len(a.m.steals)].used =
                Cardinality({ i \in Voices : a.m.voices[i].in_use })]

StealIfNone(a, m, channel) ==
  IF a.v # NULL THEN a ELSE Reallocated(allocate_voice(replace_voice(m, channel)))

AllocateOrSteal(m, channel) == StealIfNone(allocate_voice(m), m, channel)

\* voice_key_on once both allocations are made: a.v is the first voice, b.v
\* the second voice or NULL, b.m the player after the allocations
KeyOnVoices(a, b, channel, instrument, note, key, volume) ==
  IF b.v # NULL
  THEN KeyOnVoice(KeyOnVoice(b.m, a.v, channel, instrument, 0, note, key, volume),
                  b.v, channel, instrument, 1, note, key, volume)
  ELSE KeyOnVoice(b.m, a.v, channel, instrument, 0, note, key, volume)

\* voice_key_on after the allocation a of the first voice
KeyOnAllocated(a, double_voice, channel, instrument, note, key, volume) ==
  IF a.v = NULL THEN a.m
  ELSE KeyOnVoices(a,
                   IF double_voice THEN AllocateOrSteal(a.m, channel)
                   ELSE [m |-> a.m, v |-> NULL],
                   channel, instrument, note, key, volume)

voice_key_on(m, channel, instrument, note, key, volume) ==
  KeyOnAllocated(AllocateOrSteal(m, channel),
                 BitAnd(InstrData(m.instruments, instrument).flags, GENMIDI_FLAG_2VOICE) # 0,
                 channel, instrument, note, key, volume)

(***************************************************************************)
(* Reading the MUS buffer.  A pointer into the buffer is its offset from   *)
(* player->data.  The player never checks an offset against the size of    *)
(* the buffer, so a read at or beyond Len(data) is a read of memory the    *)
(* caller never passed: it yields an arbitrary byte, oob[k] for the k-th   *)
(* byte the running handler reads (k counted from the event byte).         *)
(***************************************************************************)
MemByte(pl, off, p0, oob) ==
  IF off < Len(pl.data) THEN pl.data[off + 1] ELSE oob[off - p0 + 1]

\* little-endian uint16 at offset off of a buffer
LE16(data, off) == data[off + 1] + 256 * data[off + 2]

\* returns the value and the advanced pointer; value is a uint32_t
RECURSIVE read_varlen(_, _, _, _, _)
read_varlen(pl, ptr, value, p0, oob) ==
  LET byte == MemByte(pl, ptr, p0, oob)
      v == ((value % (2 ^ 25)) * 128) + (byte % 128)
  IN  IF byte >= 128 THEN read_varlen(pl, ptr + 1, v, p0, oob)
      ELSE [value |-> v, ptr |-> ptr + 1]

\* advance_event_time without the carried remainder
advance_event_time_drift(pl, delay_ticks) ==
  [pl EXCEPT !.next_event_sample = @ + ((delay_ticks * pl.sample_rate) \div TICK_HZ),
             !.timing_remainder = 0]

advance_event_time(pl, delay_ticks) ==
  LET accum == pl.timing_remainder + delay_ticks * pl.sample_rate
  IN  [pl EXCEPT !.next_event_sample = @ + (accum \div TICK_HZ),
                 !.timing_remainder = accum % TICK_HZ]

\* an end of score that neither loops nor stops
EndOfScoreIdle(pl) == pl

\* the loop-or-stop of the end-of-data branch and of MUS_EVENT_END_OF_SCORE
EndOfScore(pl) ==
  IF pl.looping
  THEN [pl EXCEPT !.position = pl.score, !.current_sample = 0,
                  !.next_event_sample = 0, !.timing_remainder = 0]
  ELSE [pl EXCEPT !.playing = FALSE]

\* KeyOffLoop with a break after the first match
RECURSIVE KeyOffFirst(_, _, _, _)
KeyOffFirst(m, channel, note, i) ==
  IF i >= OPL_VOICES THEN m
  ELSE IF m.voices[i].in_use /\ m.voices[i].channel = channel /\ m.voices[i].key = note
       THEN KeyOffAndFree(m, i)
       ELSE KeyOffFirst(m, channel, note, i + 1)

\* the scan that releases every voice of the channel with that key
RECURSIVE KeyOffLoop(_, _, _, _)
KeyOffLoop(m, channel, note, i) ==
  IF i >= OPL_VOICES THEN m
  ELSE IF m.voices[i].in_use /\ m.voices[i].channel = channel /\ m.voices[i].key = note
       THEN KeyOffLoop(KeyOffAndFree(m, i), channel, note, i + 1)
       ELSE KeyOffLoop(m, channel, note, i + 1)

\* every handler of an event returns the player and the advanced pointer
EvReleaseNote(m, channel, ptr, p0, oob) ==
  [m |-> KeyOffLoop(m, channel, MemByte(m.pl, ptr, p0, oob), 0), ptr |-> ptr + 1]

\* EvPlayNote without the test of instruments_loaded
EvPlayNoteUnloaded(m, channel, ptr, p0, oob) ==
  LET note_data == MemByte(m.pl, ptr, p0, oob)
      note == note_data % 128
      has_vel == note_data >= 128
      velocity == IF has_vel THEN MemByte(m.pl, ptr + 1, p0, oob) % 128
                  ELSE m.channels[channel].velocity % 256
      m0 == IF has_vel THEN [m EXCEPT !.channels[channel].velocity = velocity] ELSE m
      ptr1 == IF has_vel THEN ptr + 2 ELSE ptr + 1
      perc_index == note - 35
      instr == IF channel = MIDI_PERCUSSION_CHAN
               THEN (IF perc_index >= 0 /\ perc_index < 47 THEN PercSlot(perc_index) ELSE 0)
               ELSE m0.channels[channel].instrument
  IN  IF velocity <= 0 THEN [m |-> KeyOffLoop(m0, channel, note, 0), ptr |-> ptr1]
      ELSE IF channel = MIDI_PERCUSSION_CHAN
           THEN [m |-> voice_key_on(m0, channel, instr, 60, note, velocity), ptr |-> ptr1]
           ELSE [m |-> voice_key_on(m0, channel, instr, note, note, velocity), ptr |-> ptr1]

EvPlayNote(m, channel, ptr, p0, oob) ==
  LET note_data == MemByte(m.pl, ptr, p0, oob)
      note == note_data % 128
      has_vel == note_data >= 128
      velocity == IF has_vel THEN MemByte(m.pl, ptr + 1, p0, oob) % 128
                  ELSE m.channels[channel].velocity % 256
      m0 == IF has_vel THEN [m EXCEPT !.channels[channel].velocity = velocity] ELSE m
      ptr1 == IF has_vel THEN ptr + 2 ELSE ptr + 1
      perc_index == note - 35
      instr == IF channel = MIDI_PERCUSSION_CHAN
               THEN (IF perc_index >= 0 /\ perc_index < 47 THEN PercSlot(perc_index) ELSE 0)
               ELSE m0.channels[channel].instrument
  IN  IF velocity <= 0 THEN [m |-> KeyOffLoop(m0, channel, note, 0), ptr |-> ptr1]
      ELSE IF ~m0.pl.instruments_loaded THEN [m |-> m0, ptr |-> ptr1]
      ELSE IF channel = MIDI_PERCUSSION_CHAN
           THEN [m |-> voice_key_on(m0, channel, instr, 60, note, velocity), ptr |-> ptr1]
           ELSE [m |-> voice_key_on(m0, channel, instr, note, note, velocity), ptr |-> ptr1]

RECURSIVE BendLoop(_, _, _)
BendLoop(m, channel, i) ==
  IF i >= OPL_VOICES THEN m
  ELSE IF m.voices[i].in_use /\ m.voices[i].channel = channel
       THEN BendLoop(update_voice_frequency([m EXCEPT !.voices[i].freq = 0], i), channel, i + 1)
       ELSE BendLoop(m, channel, i + 1)

\* a division that rounds down
FloorDiv(a, b) == a \div b

\* C's / truncates toward zero
CDiv(a, b) == IF a >= 0 THEN a \div b ELSE -((-a) \div b)

EvPitchBend(m, channel, ptr, p0, oob) ==
  LET bend == MemByte(m.pl, ptr, p0, oob)
      m0 == [m EXCEPT !.channels[channel].bend = CDiv(bend - 128, 2)]
  IN  [m |-> BendLoop(m0, channel, 0), ptr |-> ptr + 1]

EvSystemEvent(m, channel, ptr, p0, oob) ==
  LET sys_event == MemByte(m.pl, ptr, p0, oob)
      m1 == IF sys_event \in {10, 11} THEN release_all_voices_for_channel(m, channel)
            ELSE IF sys_event = 14
                 THEN [set_channel_pan(set_channel_volume(m, channel, 100), channel, 64)
                         EXCEPT !.channels[channel].bend = 0]
                 ELSE m
  IN  [m |-> m1, ptr |-> ptr + 1]

EvController(m, channel, ptr, p0, oob) ==
  LET ctrl == MemByte(m.pl, ptr, p0, oob)
      value == MemByte(m.pl, ptr + 1, p0, oob)
      midi_ctrl == mus_to_midi_ctrl[ctrl + 1]
      m1 == IF ctrl < 15
            THEN (IF midi_ctrl = 0 /\ ctrl = 0
                  THEN [m EXCEPT !.channels[channel].instrument = value]
                  ELSE IF midi_ctrl = 7 THEN set_channel_volume(m, channel, value)
                  ELSE IF midi_ctrl = 10 THEN set_channel_pan(m, channel, value)
                  ELSE m)
            ELSE m
  IN  [m |-> m1, ptr |-> ptr + 2]

\* no remap: the MUS channel is the internal channel
RemapNone(channel) == channel

\* MUS channel 15 <-> MIDI channel 9
RemapChannel(channel) ==
  IF channel = MUS_PERCUSSION_CHAN THEN MIDI_PERCUSSION_CHAN
  ELSE IF channel = MIDI_PERCUSSION_CHAN THEN MUS_PERCUSSION_CHAN
  ELSE channel

\* switch (type): the handler of the event, or nothing for a type with no case
Dispatch(m, type, channel, ptr, p0, oob) ==
  CASE type = MUS_EVENT_RELEASE_NOTE -> EvReleaseNote(m, channel, ptr, p0, oob)
    [] type = MUS_EVENT_PLAY_NOTE -> EvPlayNote(m, channel, ptr, p0, oob)
    [] type = MUS_EVENT_PITCH_BEND -> EvPitchBend(m, channel, ptr, p0, oob)
    [] type = MUS_EVENT_SYSTEM_EVENT -> EvSystemEvent(m, channel, ptr, p0, oob)
    [] type = MUS_EVENT_CONTROLLER -> EvController(m, channel, ptr, p0, oob)
    [] OTHER -> [m |-> m, ptr |-> ptr]

\* if (event & 0x80) { delay = read_varlen(&ptr); advance_event_time(...); }
\* player->position = ptr;
\* r is what the handler of the event returned, d what read_varlen returned
Delayed(r, d) ==
  [r.m EXCEPT !.pl = [advance_event_time(r.m.pl, d.value) EXCEPT !.position = d.ptr],
              !.rd = d.ptr - 1, !.delay = d.value]

DelayAndAdvance(r, event, p0, oob) ==
  IF event >= 128
  THEN Delayed(r, read_varlen(r.m.pl, r.ptr, 0, p0, oob))
  ELSE [r.m EXCEPT !.pl.position = r.ptr, !.rd = r.ptr - 1]

\* true when process_event takes its end-of-data branch
AtEndOfData(pl) ==
  pl.position = NULL \/ pl.position >= pl.score + pl.score_size

process_event(m, oob) ==
  IF AtEndOfData(m.pl) THEN [m EXCEPT !.pl = EndOfScore(m.pl)]
  ELSE
    LET p0 == m.pl.position
        event == MemByte(m.pl, p0, p0, oob)
        channel == RemapChannel(event % 16)
        type == BitAnd(event, 112)
    IN  IF type = MUS_EVENT_END_OF_SCORE
        THEN [m EXCEPT !.pl = EndOfScore(m.pl), !.rd = p0]
        ELSE DelayAndAdvance(Dispatch(m, type, channel, p0 + 1, p0, oob), event, p0, oob)

(***************************************************************************)
(* init_opl_registers: the register writes of the constructor, in order.   *)
(***************************************************************************)
\* for (r = from; r <= to; ++r) write_opl_reg(player, r | array, value);
RegRange(from, to, array, value) ==
  [k \in 1 .. (to - from + 1) |-> << BitOr(from + k - 1, array), value >>]

InitArrayWrites(array) ==
  RegRange(OPL_REGS_LEVEL, OPL_REGS_LEVEL + 21, array, 63)
    \o RegRange(OPL_REGS_ATTACK, OPL_REGS_WAVEFORM + 21, array, 0)
    \o RegRange(1, OPL_REGS_LEVEL - 1, array, 0)

init_opl_registers ==
  InitArrayWrites(0) \o << << 4, 96 >>, << 4, 128 >>, << 1, 32 >>, << 261, 1 >> >>
    \o InitArrayWrites(256)

\* OPL3_WriteReg applied to each write of a sequence, in order: a register
\* holds the value of the last write to it
ApplyWrites(regs, w) ==
  [a \in DOMAIN regs |->
     LET ks == { k \in DOMAIN w : w[k][1] = a }
     IN  IF ks = {} THEN regs[a]
         ELSE w[CHOOSE k \in ks : \A j \in ks : j <= k][2]]

\* the same for the few writes of one handler, from write k on
RECURSIVE WriteRegs(_, _, _)
WriteRegs(regs, w, k) ==
  IF k > Len(w) THEN regs
  ELSE WriteRegs([regs EXCEPT ![w[k][1]] = w[k][2]], w, k + 1)

ChipRegs == 0 .. 511

(***************************************************************************)
(* The inputs of the model.                                                *)
(***************************************************************************)
\* bounds of the exploration
MaxFrames == 2
MaxCalls == 4
MaxEventBytes == 4

SampleRates == {100, 140}

\* the 14-byte MUS header followed by the bytes of the file
MusHeader(score_len, score_start) ==
  << 77, 85, 83, 26,
     score_len % 256, score_len \div 256, score_start % 256, score_start \div 256,
     1, 0, 0, 0, 1, 0 >>

MusFile(score_len, body) == MusHeader(score_len, MUS_HEADER_SIZE) \o body

\* ten notes at once, on channels 0 and 1 in turn, held for one tick: more
\* than the voices hold when the instrument is a double-voice one
PoolScore ==
  << 16, 60, 17, 61, 16, 62, 17, 63, 16, 64, 17, 65, 16, 66, 17, 67, 16, 68, 144, 69, 1, 96 >>

\* nineteen notes at once on channel 0, each a different note
NineteenScore ==
  << 16, 40, 16, 41, 16, 42, 16, 43, 16, 44, 16, 45, 16, 46, 16, 47, 16, 48, 16, 49,
     16, 50, 16, 51, 16, 52, 16, 53, 16, 54, 16, 55, 16, 56, 16, 57, 144, 58, 1, 96 >>

\* eighteen notes at once on channel 0, but for the sixth and the tenth on
\* channel 2, then a note on channel 1 and two more on channel 0
MixedScore ==
  << 16, 40, 16, 41, 16, 42, 16, 43, 16, 44, 18, 45, 16, 46, 16, 47, 16, 48, 18, 49,
     16, 50, 16, 51, 16, 52, 16, 53, 16, 54, 16, 55, 16, 56, 16, 57,
     17, 58, 16, 59, 144, 60, 1, 96 >>

\* program 1 on channel 0, eighteen notes at once, program 0, one more note
SwitchScore ==
  << 64, 0, 1,
     16, 40, 16, 41, 16, 42, 16, 43, 16, 44, 16, 45, 16, 46, 16, 47, 16, 48, 16, 49,
     16, 50, 16, 51, 16, 52, 16, 53, 16, 54, 16, 55, 16, 56, 16, 57,
     64, 0, 0, 144, 58, 1, 96 >>

\* eighteen notes at once on channel 0, channel 1 panned left, a note on
\* channel 1
PanScore ==
  << 16, 40, 16, 41, 16, 42, 16, 43, 16, 44, 16, 45, 16, 46, 16, 47, 16, 48, 16, 49,
     16, 50, 16, 51, 16, 52, 16, 53, 16, 54, 16, 55, 16, 56, 16, 57,
     65, 4, 0, 145, 58, 1, 96 >>

\* the scores that ask for more voices than there are
StealBuffers ==
  { MusFile(22, PoolScore), MusFile(40, NineteenScore), MusFile(44, MixedScore),
    MusFile(46, SwitchScore), MusFile(43, PanScore) }

\* scores with system events (48 + channel), controllers (64 + channel) and
\* pitch bends (32 + channel) among notes held on channels 0, 1 and 2:
\* all-notes-off and reset by system event, the same asked by controller
\* after a volume, a pan and a bend, and bends to both ends of the range
EventScores ==
  { << 18, 60, 18, 62, 18, 64, 16, 65, 50, 11, 18, 67, 48, 10, 50, 12, 50, 14,
       144, 70, 1, 96 >>,
    << 16, 60, 17, 61, 64, 3, 50, 64, 4, 0, 32, 200, 64, 11, 0, 65, 10, 0, 64, 14, 0,
       144, 62, 1, 96 >>,
    << 16, 60, 17, 61, 32, 128, 32, 0, 32, 127, 32, 255, 48, 14, 144, 62, 1, 96 >> }

\* these and the scores that ask for more voices than there are
EventBuffers == StealBuffers \cup { MusFile(Len(b), b) : b \in EventScores }

\* 144 = play note on channel 0 followed by a delay, 16 = the same without
\* delay, 128 / 0 = release note, 96 = end of score, 80 and 208 = no event type
ScoreBodies ==
  { << >>,
    << 96 >>,
    << 144, 60, 1, 96 >>,
    << 144, 60, 2, 128, 60, 1, 96 >>,
    << 16, 60, 0, 60, 96 >>,
    << 80, 144, 60, 1, 96 >>,
    << 208, 1, 96 >>,
    PoolScore }

\* whole files, and files cut short of the score length their header states
MusBuffers ==
  { MusFile(Len(b), b) : b \in ScoreBodies }
    \cup { MusFile(3, << 144, 60 >>), MusFile(2, << 144, 60 >>), MusFile(2, << 144, 60, 1, 96 >>) }

\* the files of the specification of the whole API
ApiBuffers == { MusFile(4, << 144, 60, 1, 96 >>) }

\* buffers musdoom_load rejects: too short for a header, and a bad signature
BadBuffers == { << 77, 85, 83 >>, << 0, 0, 0, 0, 0, 0, 0, 0, 0, 0, 0, 0, 0, 0 >> }

NoData == << >>

\* bytes a read beyond the buffer may yield
OobBytes == {0, 1}
OobChoices == [1 .. MaxEventBytes -> OobBytes]

Op1 == [tremolo |-> 33, attack |-> 242, sustain |-> 117, waveform |-> 1, scale |-> 64, level |-> 16]
Op2 == [tremolo |-> 1, attack |-> 241, sustain |-> 53, waveform |-> 0, scale |-> 128, level |-> 5]

\* a single-voice instrument with modulated (FM) connection
Piano ==
  [flags |-> 0, fine_tuning |-> 128, fixed_note |-> 0,
   voices |-> << [modulator |-> Op1, feedback |-> 10, carrier |-> Op2, base_note_offset |-> 0],
                 ZeroVoice >>]

\* a double-voice instrument with additive connection
Organ ==
  [flags |-> GENMIDI_FLAG_2VOICE, fine_tuning |-> 130, fixed_note |-> 0,
   voices |-> << [modulator |-> Op1, feedback |-> 1, carrier |-> Op2, base_note_offset |-> 0],
                 [modulator |-> Op2, feedback |-> 7, carrier |-> Op1, base_note_offset |-> -12] >>]

\* a fixed-note percussion instrument
Kick ==
  [flags |-> GENMIDI_FLAG_FIXED, fine_tuning |-> 128, fixed_note |-> 36,
   voices |-> << [modulator |-> Op2, feedback |-> 8, carrier |-> Op1, base_note_offset |-> 0],
                 ZeroVoice >>]

\* GENMIDI lumps: the records that follow the 8-byte signature, by record
\* number (0..127 melodic, 128..174 percussion); records not listed are zero
GenmidiLumps ==
  { (0 :> Piano) @@ (1 :> Organ) @@ (128 :> Kick),
    (0 :> Organ) @@ (1 :> Piano) @@ (128 :> Kick) }

GENMIDI_HEADER_SIZE == 8
GENMIDI_NUM_INSTRS == 128
GENMIDI_NUM_PERCUSSION == 47
GENMIDI_INSTR_SIZE == 36

\* "#OPL_II#"
GenmidiMagic == << 35, 79, 80, 76, 95, 73, 73, 35 >>

\* the size of a whole lump: the signature and 175 records
GenmidiFullSize ==
  GENMIDI_HEADER_SIZE + (GENMIDI_NUM_INSTRS + GENMIDI_NUM_PERCUSSION) * GENMIDI_INSTR_SIZE

\* What musdoom_load_genmidi is passed: a pointer (null or not) and a size.
\* The buffer holds `head`, its first bytes (up to 8), and then the records of
\* `records` that fit into the size.
GenmidiBlob(head, size, records) ==
  [null |-> FALSE, head |-> head, size |-> size, records |-> records]

NullBlob == [null |-> TRUE, head |-> << >>, size |-> GenmidiFullSize, records |-> << >>]

\* whole lumps
GoodBlobs == { GenmidiBlob(GenmidiMagic, GenmidiFullSize, l) : l \in GenmidiLumps }

\* a lump that lacks its last record
CutBlob ==
  GenmidiBlob(GenmidiMagic, GenmidiFullSize - GENMIDI_INSTR_SIZE,
              (0 :> Organ) @@ (1 :> Piano) @@ (128 :> Kick))

\* a blob shorter than the signature, one with another signature, a cut one,
\* and no blob
PoorBlobs ==
  { GenmidiBlob(<< 35, 79, 80 >>, 3, << >>),
    GenmidiBlob(<< 35, 79, 80, 76, 95, 73, 73, 73 >>, GenmidiFullSize, (0 :> Piano)),
    CutBlob,
    NullBlob }

ApiBlobs == GoodBlobs \cup PoorBlobs

\* what a read of a record beyond the buffer may yield
OobInstrs == { ZeroInstr, Piano }
ZeroInstrOnly == { ZeroInstr }

(***************************************************************************)
(* The state.                                                              *)
(*   emu          struct musdoom_emulator                                  *)
(*   pl           the scalar fields of struct mus_player_s                 *)
(*   channels     player->channels[16]                                     *)
(*   voices       player->voices[18]                                       *)
(*   instruments  player->instruments[] and player->percussion[]           *)
(*   chip         the last value written to each chip register             *)
(*   call         the running musdoom_generate_samples call, if any        *)
(*   calls        the number of control calls made so far                  *)
(* History variables, read by no action:                                   *)
(*   last         the last operation, its result and what it touched       *)
(*   ticks        the sum of the delays read since the clock was reset     *)
(*   patch        for each voice, the instrument record its instrument     *)
(*                pointer pointed to when the voice was last keyed on      *)
(*   passes       the register writes of the first two passes since start  *)
(***************************************************************************)
VARIABLES emu, pl, channels, voices, instruments, chip, call, last, ticks, passes, calls, patch

vars == << emu, pl, channels, voices, instruments, chip, call, last, ticks, passes, calls, patch >>

InitChannel ==
  [voice |-> -1, instrument |-> 0, volume |-> 100, pan |-> 48, bend |-> 0,
   active |-> FALSE, note |-> 0, key |-> 0, velocity |-> 127]

InitVoice(i) ==
  [index |-> i % 9,
   op1 |-> voice_operators[1][(i % 9) + 1],
   op2 |-> voice_operators[2][(i % 9) + 1],
   array |-> (i \div 9) * 256,
   in_use |-> FALSE, current_instr |-> NULL, current_instr_voice |-> 0,
   channel |-> NULL, key |-> 0, note |-> 0, freq |-> 0,
   car_volume |-> 0, mod_volume |-> 0, note_volume |-> 0, reg_pan |-> 48]

\* mus_player_create
mus_player_create(sample_rate) ==
  [data |-> NoData, score |-> NULL, score_size |-> 0, position |-> NULL,
   playing |-> FALSE, looping |-> FALSE,
   current_sample |-> 0, next_event_sample |-> 0, timing_remainder |-> 0,
   sample_rate |-> sample_rate, instruments_loaded |-> FALSE]

\* musdoom_create with the default configuration but for the sample rate
musdoom_create ==
  [playing |-> FALSE, paused |-> FALSE, looping |-> FALSE,
   current_volume |-> 100, initial_volume |-> 100, start_volume |-> 0,
   current_time_us |-> 0, music_data |-> NoData, music_size |-> 0,
   instruments_loaded |-> FALSE]

\* op, ret: the operation and what it returned; for a processed event also its
\* type, channel and first payload byte, the cursor it was read from, the
\* highest offset read, the number of voices free before it and the number of
\* voices it released; for a load_genmidi, arg is the size passed (NULL with a
\* null pointer) and type is 1 when the buffer starts with the signature; for
\* a resume, arg is 1 when the emulator was paused; for a set_volume, arg is
\* the volume passed; steals: the calls of replace_voice a processed event
\* made; on: the voices it keyed on; w: the register writes it issued; for a
\* frequency computed, ret is the value, arg the index read in
\* frequency_curve, type the octave and from the note of the voice
NoLast == [op |-> "create", ret |-> MUSDOOM_OK, type |-> -1, channel |-> -1, arg |-> -1,
           from |-> -1, rd |-> -1, free |-> -1, released |-> -1, steals |-> << >>,
           on |-> {}, w |-> << >>]

Called(op, ret) == [NoLast EXCEPT !.op = op, !.ret = ret]

NoPasses == [pass |-> 0, first |-> << >>, second |-> << >>]

Init ==
  /\ emu = musdoom_create
  /\ \E rate \in SampleRates : pl = mus_player_create(rate)
  /\ channels = [c \in Channels |-> InitChannel]
  /\ voices = [i \in Voices |-> InitVoice(i)]
  /\ instruments = << >>
  /\ chip = ApplyWrites([a \in ChipRegs |-> 0], init_opl_registers)
  /\ call = [pc |-> "idle", left |-> 0]
  /\ last = NoLast
  /\ ticks = 0
  /\ passes = NoPasses
  /\ calls = 0
  /\ patch = [i \in Voices |-> ZeroInstr]

Idle == call.pc = "idle"

\* a control call: made between two calls of musdoom_generate_samples
Control == Idle /\ calls < MaxCalls /\ calls' = calls + 1

(***************************************************************************)
(* The public entry points.                                                *)
(***************************************************************************)
\* mus_player_stop that flips the flag
mus_player_stop_toggle(p) == [p EXCEPT !.playing = ~@]

mus_player_stop(p) == [p EXCEPT !.playing = FALSE]

\* returns the player and the result
mus_player_load(p, data, size) ==
  IF data = NoData \/ size < MUS_HEADER_SIZE THEN [pl |-> p, ret |-> -1]
  ELSE IF << data[1], data[2], data[3], data[4] >> # << 77, 85, 83, 26 >>
       THEN [pl |-> p, ret |-> -1]
  ELSE [pl |-> [p EXCEPT !.data = data,
                         !.score = LE16(data, 6),
                         !.score_size = LE16(data, 4),
                         !.position = LE16(data, 6),
                         !.playing = FALSE,
                         !.current_sample = 0,
                         !.next_event_sample = 0,
                         !.timing_remainder = 0],
        ret |-> 0]

\* the effect of musdoom_unload on the two structures
musdoom_unload(e, p) ==
  [emu |-> [e EXCEPT !.music_data = NoData, !.music_size = 0],
   pl |-> mus_player_stop(p)]

\* returns the two structures and the result
musdoom_load(e, p, data, size) ==
  IF data = NoData \/ size = 0
  THEN [emu |-> e, pl |-> p, ret |-> MUSDOOM_ERR_INVALID_PARAM]
  ELSE LET u == musdoom_unload(e, p)
           l == mus_player_load(u.pl, data, size)
       IN  IF l.ret # 0
           THEN [emu |-> u.emu, pl |-> l.pl, ret |-> MUSDOOM_ERR_INVALID_DATA]
           ELSE [emu |-> [u.emu EXCEPT !.music_data = data, !.music_size = size],
                 pl |-> l.pl, ret |-> MUSDOOM_OK]

\* musdoom_load with a buffer of the given set (NoData is the null pointer),
\* and its size or 0 as the size
LoadFrom(buffers) ==
  /\ Control
  /\ \E data \in buffers :
       \E size \in {0, Len(data)} :
         LET r == musdoom_load(emu, pl, data, size)
         IN  /\ emu' = r.emu
             /\ pl' = r.pl
             /\ last' = Called("load", r.ret)
             /\ ticks' = IF r.ret = MUSDOOM_OK THEN 0 ELSE ticks
  /\ UNCHANGED << channels, voices, instruments, chip, call, passes, patch >>

\* what the API specification loads: a file, a rejected buffer, or no buffer
LoadBuffers == ApiBuffers \cup BadBuffers \cup {NoData}

Load == LoadFrom(LoadBuffers)

Unload ==
  /\ Control
  /\ emu' = musdoom_unload(emu, pl).emu
  /\ pl' = musdoom_unload(emu, pl).pl
  /\ last' = Called("unload", MUSDOOM_OK)
  /\ UNCHANGED << channels, voices, instruments, chip, call, ticks, passes, patch >>

mus_player_start(p, looping) ==
  IF p.data = NoData THEN p
  ELSE [p EXCEPT !.looping = looping, !.playing = TRUE, !.position = p.score,
                 !.current_sample = 0, !.next_event_sample = 0, !.timing_remainder = 0]

musdoom_start(e, p, looping) ==
  IF e.music_data = NoData
  THEN [emu |-> e, pl |-> p, ret |-> MUSDOOM_ERR_INVALID_PARAM]
  ELSE [emu |-> [e EXCEPT !.looping = looping, !.playing = TRUE, !.paused = FALSE,
                          !.current_time_us = 0, !.start_volume = e.current_volume],
        pl |-> mus_player_start(p, looping),
        ret |-> MUSDOOM_OK]

Start ==
  /\ Control
  /\ \E looping \in BOOLEAN :
       LET r == musdoom_start(emu, pl, looping)
       IN  /\ emu' = r.emu
           /\ pl' = r.pl
           /\ last' = Called("start", r.ret)
           /\ ticks' = IF r.ret = MUSDOOM_OK THEN 0 ELSE ticks
           /\ passes' = IF r.ret = MUSDOOM_OK
                        THEN [pass |-> 1, first |-> << >>, second |-> << >>]
                        ELSE passes
  /\ UNCHANGED << channels, voices, instruments, chip, call, patch >>

Stop ==
  /\ Control
  /\ emu' = [emu EXCEPT !.playing = FALSE]
  /\ pl' = mus_player_stop(pl)
  /\ last' = Called("stop", MUSDOOM_OK)
  /\ UNCHANGED << channels, voices, instruments, chip, call, ticks, passes, patch >>

Pause ==
  /\ Control
  /\ emu' = [emu EXCEPT !.paused = TRUE]
  /\ last' = Called("pause", MUSDOOM_OK)
  /\ UNCHANGED << pl, channels, voices, instruments, chip, call, ticks, passes, patch >>

\* Resume that also sets emu->playing
ResumeAndPlay ==
  /\ Control
  /\ emu' = [emu EXCEPT !.paused = FALSE, !.playing = TRUE]
  /\ last' = [Called("resume", MUSDOOM_OK) EXCEPT !.arg = IF emu.paused THEN 1 ELSE 0]
  /\ UNCHANGED << pl, channels, voices, instruments, chip, call, ticks, passes, patch >>

Resume ==
  /\ Control
  /\ emu' = [emu EXCEPT !.paused = FALSE]
  /\ last' = [Called("resume", MUSDOOM_OK) EXCEPT !.arg = IF emu.paused THEN 1 ELSE 0]
  /\ UNCHANGED << pl, channels, voices, instruments, chip, call, ticks, passes, patch >>

musdoom_is_playing == emu.playing /\ ~emu.paused

\* the slots the two memcpy loops fill
LoadedSlots ==
  (0 .. (GENMIDI_NUM_INSTRS - 1))
    \cup { PercSlot(j) : j \in 0 .. (GENMIDI_NUM_PERCUSSION - 1) }

\* record r as memcpy reads it: from the buffer if the record lies within it,
\* else whatever lies behind the buffer
RecordAt(blob, r, garbage) ==
  IF GENMIDI_HEADER_SIZE + (r + 1) * GENMIDI_INSTR_SIZE <= blob.size
  THEN (IF r \in DOMAIN blob.records THEN blob.records[r] ELSE ZeroInstr)
  ELSE garbage

\* the record the two memcpy loops copy into a slot
RecordFor(blob, slot, garbage) ==
  RecordAt(blob, IF slot < INSTR_ARRAY_LEN THEN slot
                 ELSE slot - INSTR_ARRAY_LEN + GENMIDI_NUM_INSTRS, garbage)

\* the copy of the 128 melodic and 47 percussion records into the two
\* arrays; returns the arrays, the player and the result.  The arrays are
\* kept as the slots that are not zero: every slot is overwritten, and a slot
\* that is not listed holds the zero record (InstrData).
mus_player_load_instruments(ins, p, blob, garbage) ==
  IF blob.null \/ blob.size < GENMIDI_HEADER_SIZE THEN [instruments |-> ins, pl |-> p, ret |-> -1]
  ELSE IF blob.head # GenmidiMagic THEN [instruments |-> ins, pl |-> p, ret |-> -1]
  ELSE [instruments |->
          [slot \in { t \in LoadedSlots : RecordFor(blob, t, garbage) # ZeroInstr } |->
             RecordFor(blob, slot, garbage)],
        pl |-> [p EXCEPT !.instruments_loaded = TRUE],
        ret |-> 0]

\* returns the emulator, what mus_player_load_instruments left, and the result
musdoom_load_genmidi(e, ins, p, blob, garbage) ==
  IF blob.null \/ blob.size < GENMIDI_HEADER_SIZE
  THEN [emu |-> e, instruments |-> ins, pl |-> p, ret |-> MUSDOOM_ERR_INVALID_PARAM]
  ELSE LET l == mus_player_load_instruments(ins, p, blob, garbage)
       IN  IF l.ret # 0
           THEN [emu |-> e, instruments |-> l.instruments, pl |-> l.pl,
                 ret |-> MUSDOOM_ERR_INVALID_DATA]
           ELSE [emu |-> [e EXCEPT !.instruments_loaded = TRUE],
                 instruments |-> l.instruments, pl |-> l.pl, ret |-> MUSDOOM_OK]

\* the bytes behind the buffer matter only to a copy that reads them
GarbageFor(blob) ==
  IF ~blob.null /\ blob.size >= GENMIDI_HEADER_SIZE /\ blob.size < GenmidiFullSize
  THEN OobInstrs ELSE ZeroInstrOnly

\* musdoom_load_genmidi with a blob of the given set
LoadGenmidiFrom(blobs) ==
  /\ Control
  /\ \E blob \in blobs :
     \E garbage \in GarbageFor(blob) :
     \E r \in { musdoom_load_genmidi(emu, instruments, pl, blob, garbage) } :
       /\ instruments' = r.instruments
       /\ pl' = r.pl
       /\ emu' = r.emu
       /\ last' = [Called("load_genmidi", r.ret) EXCEPT
                     !.arg = IF blob.null THEN NULL ELSE blob.size,
                     !.type = IF blob.head = GenmidiMagic THEN 1 ELSE 0]
  /\ UNCHANGED << channels, voices, chip, call, ticks, passes, patch >>

LoadGenmidi == LoadGenmidiFrom(ApiBlobs)

(***************************************************************************)
(* musdoom_generate_samples.  The call is one action when it only fills    *)
(* the buffer with silence.  Otherwise it enters mus_player_generate,      *)
(* whose loop runs one step at a time: GenEvent is one process_event of    *)
(* the inner while loop, GenSample is one frame of the outer loop, and     *)
(* the frame that completes the request also runs the rest of              *)
(* musdoom_generate_samples and returns.                                   *)
(***************************************************************************)
mus_player_get_position_ms(p) == (p.current_sample * 1000) \div p.sample_rate

\* GenerateSamples without the test of emu->paused
GenerateSamplesThroughPause ==
  /\ Idle
  /\ \E num_samples \in 1 .. MaxFrames :
       IF ~emu.playing
       THEN /\ last' = Called("silence", num_samples)
            /\ call' = call
       ELSE /\ last' = Called("generate", -1)
            /\ call' = [pc |-> "generate", left |-> num_samples]
  /\ UNCHANGED << emu, pl, channels, voices, instruments, chip, ticks, passes, calls, patch >>

GenerateSamples ==
  /\ Idle
  /\ \E num_samples \in 1 .. MaxFrames :
       IF ~emu.playing \/ emu.paused
       THEN /\ last' = Called("silence", num_samples)
            /\ call' = call
       ELSE /\ last' = Called("generate", -1)
            /\ call' = [pc |-> "generate", left |-> num_samples]
  /\ UNCHANGED << emu, pl, channels, voices, instruments, chip, ticks, passes, calls, patch >>

EventDue == pl.playing /\ pl.current_sample >= pl.next_event_sample

NoOob == [k \in 1 .. MaxEventBytes |-> 0]
NoOobOnly == { NoOob }

StartOf(p) ==
  [voices |-> voices, channels |-> channels, instruments |-> instruments,
   pl |-> p, w |-> << >>, rd |-> -1, delay |-> 0, on |-> {}, steals |-> << >>]

\* the bytes beyond the buffer matter only to an event that reads them
OobFor(p) ==
  IF process_event(StartOf(p), NoOob).rd >= Len(p.data) THEN OobChoices ELSE NoOobOnly

\* the event byte at the cursor, or -1 when process_event reads none
EventByte(p, oob) ==
  IF AtEndOfData(p) THEN -1 ELSE MemByte(p, p.position, p.position, oob)

\* the pass ends when the cursor goes back to the start of the score
LogPass(log, w, restart) ==
  LET l1 == IF log.pass = 1 THEN [log EXCEPT !.first = @ \o w]
            ELSE IF log.pass = 2 THEN [log EXCEPT !.second = @ \o w]
            ELSE log
  IN  IF restart /\ log.pass \in {1, 2} THEN [l1 EXCEPT !.pass = @ + 1] ELSE l1

GenEvent ==
  /\ call.pc = "generate" /\ call.left > 0
  /\ EventDue
  /\ \E oob \in OobFor(pl) :
     \E r \in { process_event(StartOf(pl), oob) } :
       LET event == EventByte(pl, oob)
           restart == pl.looping /\ (event = -1 \/ BitAnd(event, 112) = MUS_EVENT_END_OF_SCORE)
       IN  /\ voices' = r.voices
           /\ channels' = r.channels
           /\ pl' = r.pl
           /\ chip' = WriteRegs(chip, r.w, 1)
           /\ last' = [op |-> "event", ret |-> MUSDOOM_OK,
                       type |-> IF event = -1 THEN -1 ELSE BitAnd(event, 112),
                       channel |-> IF event = -1 THEN -1 ELSE RemapChannel(event % 16),
                       arg |-> IF event = -1 \/ BitAnd(event, 112) = MUS_EVENT_END_OF_SCORE
                               THEN -1 ELSE MemByte(pl, pl.position + 1, pl.position, oob),
                       from |-> pl.position,
                       rd |-> r.rd,
                       free |-> Cardinality({ i \in Voices : ~voices[i].in_use }),
                       released |-> Cardinality({ i \in Voices :
                                                    voices[i].in_use /\ ~r.voices[i].in_use }),
                       steals |-> r.steals,
                       on |-> r.on,
                       w |-> r.w]
           /\ ticks' = IF restart THEN 0 ELSE ticks + r.delay
           /\ passes' = LogPass(passes, r.w, restart)
           /\ patch' = [i \in Voices |->
                          IF i \in r.on THEN InstrData(instruments, r.voices[i].current_instr)
                          ELSE patch[i]]
  /\ UNCHANGED << emu, instruments, call, calls >>

\* a frame generated without looking for due events
GenSampleEarly ==
  /\ call.pc = "generate" /\ call.left > 0
  /\ pl' = IF pl.playing THEN [pl EXCEPT !.current_sample = @ + 1] ELSE pl
  /\ IF call.left = 1
     THEN /\ call' = [pc |-> "idle", left |-> 0]
          /\ emu' = [emu EXCEPT !.current_time_us = mus_player_get_position_ms(pl') * 1000,
                                !.playing = IF ~pl.playing THEN FALSE ELSE @]
          /\ last' = Called("generate", 1)
     ELSE /\ call' = [call EXCEPT !.left = @ - 1]
          /\ emu' = emu
          /\ last' = Called("frame", MUSDOOM_OK)
  /\ UNCHANGED << channels, voices, instruments, chip, ticks, passes, calls, patch >>

GenSample ==
  /\ call.pc = "generate" /\ call.left > 0
  /\ ~EventDue
  /\ pl' = IF pl.playing THEN [pl EXCEPT !.current_sample = @ + 1] ELSE pl
  /\ IF call.left = 1
     THEN /\ call' = [pc |-> "idle", left |-> 0]
          /\ emu' = [emu EXCEPT !.current_time_us = mus_player_get_position_ms(pl') * 1000,
                                !.playing = IF ~pl.playing THEN FALSE ELSE @]
          /\ last' = Called("generate", 1)
     ELSE /\ call' = [call EXCEPT !.left = @ - 1]
          /\ emu' = emu
          /\ last' = Called("frame", MUSDOOM_OK)
  /\ UNCHANGED << channels, voices, instruments, chip, ticks, passes, calls, patch >>

GenStep == GenEvent \/ GenSample

Next ==
  \/ Load
  \/ Unload
  \/ Start
  \/ Stop
  \/ Pause
  \/ Resume
  \/ LoadGenmidi
  \/ GenerateSamples
  \/ GenEvent
  \/ GenSample

Spec == Init /\ [][Next]_vars

\* A call of musdoom_generate_samples, once made, keeps running: the thread
\* that is in the loop of mus_player_generate takes its next step.  The
\* fairness of GenEvent is weak fairness with the enabling condition written
\* out as the loop conditions of mus_player_generate.
GenFairness ==
  /\ WF_vars(GenSample)
  /\ ([]<><<GenEvent>>_vars \/ []<>~(call.pc = "generate" /\ call.left > 0 /\ EventDue))

(***************************************************************************)
(* Playing one score through: create, load_genmidi or not, load, start,    *)
(* and then calls of musdoom_generate_samples only.                        *)
(***************************************************************************)
PlayLoadGenmidi == calls = 0 /\ LoadGenmidiFrom(GoodBlobs)

PlayLoad == emu.music_data = NoData /\ LoadFrom(MusBuffers)

PlayStart == passes.pass = 0 /\ emu.music_data # NoData /\ Start

PlayNext ==
  \/ PlayLoadGenmidi
  \/ PlayLoad
  \/ PlayStart
  \/ GenerateSamples
  \/ GenEvent
  \/ GenSample

PlaySpec == Init /\ [][PlayNext]_vars

FairPlaySpec == PlaySpec /\ GenFairness

\* the same with a caller that calls musdoom_generate_samples again and again
CallerPlaySpec == PlaySpec /\ GenFairness /\ WF_vars(GenerateSamples)

(***************************************************************************)
(* Playing the scores that ask for more voices than there are.             *)
(***************************************************************************)
StealLoad == emu.music_data = NoData /\ LoadFrom(StealBuffers)

StealNext ==
  \/ PlayLoadGenmidi
  \/ StealLoad
  \/ PlayStart
  \/ GenerateSamples
  \/ GenEvent
  \/ GenSample

StealSpec == Init /\ [][StealNext]_vars

(***************************************************************************)
(* frequency_for_voice over the notes a voice can hold, base note offsets  *)
(* over the range of a signed short, the ends of the bend and of the fine  *)
(* tuning, fixed-note instruments or not, and both voices.                 *)
(***************************************************************************)
FreqNotes == 0 .. 255
\* the ends, the centre, and two bends with which a note reads the last entry
\* of frequency_curve
FreqBends == { -64, -37, 0, 27, 63 }

FreqInstrs ==
  { [flags |-> f, fine_tuning |-> t, fixed_note |-> 0,
     voices |-> << [ZeroVoice EXCEPT !.base_note_offset = o],
                   [ZeroVoice EXCEPT !.base_note_offset = o] >>] :
      f \in { 0, GENMIDI_FLAG_FIXED }, t \in { 0, 128, 255 },
      o \in { -32768, -13, -12, 0, 12, 32767 } }

Frequency ==
  /\ last.op = "create"
  /\ \E voice_note \in FreqNotes, instr \in FreqInstrs, instr_voice \in {0, 1},
        bend \in FreqBends :
       \E freq_index \in { FreqIndex(voice_note, instr, instr_voice, bend) } :
         last' = [Called("frequency", FreqValue(freq_index))
                    EXCEPT !.arg = CurveIndex(freq_index),
                           !.type = Octave(freq_index),
                           !.from = voice_note]
  /\ UNCHANGED << emu, pl, channels, voices, instruments, chip, call, ticks, passes,
                  calls, patch >>

FreqSpec == Init /\ [][Frequency]_vars

(***************************************************************************)
(* Playing the scores with every type of event.                            *)
(***************************************************************************)
EventLoad == emu.music_data = NoData /\ LoadFrom(EventBuffers)

EventNext ==
  \/ PlayLoadGenmidi
  \/ EventLoad
  \/ PlayStart
  \/ GenerateSamples
  \/ GenEvent
  \/ GenSample

EventSpec == Init /\ [][EventNext]_vars

(***************************************************************************)
(* The volume of the emulator.  mus_player_set_master_volume is declared   *)
(* in doom_music.h and defined nowhere in the sources at hand; struct      *)
(* mus_player_s has no field for a master volume and no way back to the    *)
(* emulator, so the model has it leave the player as it is.                *)
(***************************************************************************)
MAX_VOLUME == 127

\* the volumes set_volume is called with: the ends of int, and values
\* around the two ends of the range
Volumes == { -2147483647, -128, -1, 0, 1, 64, 100, 126, 127, 128, 129, 255, 256, 2147483647 }

mus_player_set_master_volume(p, volume) == p

\* musdoom_set_volume without the upper clamp
musdoom_set_volume_unclamped(e, p, volume) ==
  LET v == IF volume < 0 THEN 0 ELSE volume
  IN  [emu |-> [e EXCEPT !.current_volume = v],
       pl |-> mus_player_set_master_volume(p, v)]

musdoom_set_volume(e, p, volume) ==
  LET v == IF volume < 0 THEN 0 ELSE IF volume > MAX_VOLUME THEN MAX_VOLUME ELSE volume
  IN  [emu |-> [e EXCEPT !.current_volume = v],
       pl |-> mus_player_set_master_volume(p, v)]

musdoom_get_volume == emu.current_volume

\* current_time_us stays far below 2^32 * 1000 here, so the cast to uint32_t
\* keeps the quotient
musdoom_get_position_ms == emu.current_time_us \div 1000

SetVolume ==
  /\ Control
  /\ \E volume \in Volumes :
       /\ emu' = musdoom_set_volume(emu, pl, volume).emu
       /\ pl' = musdoom_set_volume(emu, pl, volume).pl
       /\ last' = [Called("set_volume", MUSDOOM_OK) EXCEPT !.arg = volume]
  /\ UNCHANGED << channels, voices, instruments, chip, call, ticks, passes, patch >>

VolumeLoad == LoadFrom(ApiBuffers)

\* the calls that read or write the volume of the emulator, with stop
VolumeNext ==
  \/ SetVolume
  \/ VolumeLoad
  \/ Start
  \/ Stop

VolumeSpec == Init /\ [][VolumeNext]_vars

(***************************************************************************)
(* Playing a score with musdoom_load_genmidi called again at any time      *)
(* between two calls of musdoom_generate_samples.                          *)
(***************************************************************************)
\* a note held for a tick, then a change of the channel volume (192 =
\* controller with delay, controller 3 = volume)
ReloadScore == << 144, 60, 1, 192, 3, 80, 1, 96 >>

ReloadBuffers == { MusFile(Len(ReloadScore), ReloadScore) }

ReloadLoadGenmidi == LoadGenmidiFrom(GoodBlobs)

ReloadLoad == emu.music_data = NoData /\ LoadFrom(ReloadBuffers)

ReloadNext ==
  \/ ReloadLoadGenmidi
  \/ ReloadLoad
  \/ PlayStart
  \/ GenerateSamples
  \/ GenEvent
  \/ GenSample

ReloadSpec == Init /\ [][ReloadNext]_vars

(***************************************************************************)
(* Playing a score that is read as it is played: the bytes of the next     *)
(* event are chosen when the cursor reaches them, so that the events of    *)
(* FeedEvents are played in every order.  Each event is followed by a      *)
(* delay of one tick; the frames generated until the event is due are      *)
(* part of the step.                                                       *)
(***************************************************************************)
\* the number of events of a score
MaxFeed == 3

\* 144 = play note on channel 0, with a delay (a note byte of 128 and more is
\* followed by a velocity byte: 200 is velocity 72, 128 is velocity 0);
\* 192 = controller (0 = program, 3 = volume, 4 = pan);
\* 159, 143 = play and release on MUS channel 15 (35 and 81 are the first
\* and the last percussion note); 153 = play on MUS channel 9
FeedEvents ==
  { << 144, 61, 1 >>, << 144, 189, 200, 1 >>, << 144, 189, 128, 1 >>,
    << 192, 0, 200, 1 >>, << 192, 3, 255, 1 >>, << 192, 4, 100, 1 >>,
    << 159, 35, 1 >>, << 159, 81, 1 >>, << 143, 35, 1 >>, << 153, 60, 1 >> }

\* the header of the score, its events being read later
FeedBuffers == { MusFile(0, << >>) }

FeedLoad == emu.music_data = NoData /\ LoadFrom(FeedBuffers)

FeedStart == PlayStart /\ ~pl'.looping

\* process_event on the next event of the score, once it is due
Feed ==
  /\ Idle /\ pl.playing /\ ticks < MaxFeed
  /\ pl.position = pl.score + pl.score_size
  /\ \E e \in FeedEvents :
     \E p \in { [pl EXCEPT !.data = @ \o e, !.score_size = @ + Len(e),
                           !.current_sample = pl.next_event_sample] } :
     \E r \in { process_event(StartOf(p), NoOob) } :
       /\ voices' = r.voices
       /\ channels' = r.channels
       /\ pl' = r.pl
       /\ chip' = WriteRegs(chip, r.w, 1)
       /\ last' = [op |-> "event", ret |-> MUSDOOM_OK,
                   type |-> BitAnd(e[1], 112),
                   channel |-> RemapChannel(e[1] % 16),
                   arg |-> e[2],
                   from |-> p.position,
                   rd |-> r.rd,
                   free |-> Cardinality({ i \in Voices : ~voices[i].in_use }),
                   released |-> Cardinality({ i \in Voices :
                                                voices[i].in_use /\ ~r.voices[i].in_use }),
                   steals |-> r.steals,
                   on |-> r.on,
                   w |-> r.w]
       /\ ticks' = ticks + r.delay
       /\ passes' = LogPass(passes, r.w, FALSE)
       /\ patch' = [i \in Voices |->
                      IF i \in r.on THEN InstrData(instruments, r.voices[i].current_instr)
                      ELSE patch[i]]
  /\ UNCHANGED << emu, instruments, call, calls >>

FeedNext ==
  \/ PlayLoadGenmidi
  \/ FeedLoad
  \/ FeedStart
  \/ Feed

FeedSpec == Init /\ [][FeedNext]_vars

\* musdoom_seek_ms: musdoom_stop, then musdoom_start(emu, emu->looping), the
\* result of which it drops
Seek ==
  /\ Control
  /\ \E r \in { musdoom_start([emu EXCEPT !.playing = FALSE], mus_player_stop(pl),
                              emu.looping) } :
       /\ emu' = r.emu
       /\ pl' = r.pl
       /\ last' = [Called("seek", MUSDOOM_OK) EXCEPT !.arg = r.ret]
       /\ ticks' = IF r.ret = MUSDOOM_OK THEN 0 ELSE ticks
       /\ passes' = IF r.ret = MUSDOOM_OK
                    THEN [pass |-> 1, first |-> << >>, second |-> << >>]
                    ELSE passes
  /\ UNCHANGED << channels, voices, instruments, chip, call, patch >>

\* a note with velocity 40 on channel 0, a note without velocity held for a
\* tick, the first note again with velocity 0, a note without velocity;
\* and a note without velocity held for a tick, then a note with velocity 40
SeekScores ==
  { << 16, 188, 40, 144, 61, 1, 16, 188, 0, 16, 62, 96 >>,
    << 144, 60, 1, 16, 189, 40, 96 >> }

SeekBuffers == { MusFile(Len(b), b) : b \in SeekScores }

SeekLoad == emu.music_data = NoData /\ LoadFrom(SeekBuffers)

\* a score played with the playback stopped, started again or sought at any
\* time between two calls of musdoom_generate_samples
SeekNext ==
  \/ PlayLoadGenmidi
  \/ SeekLoad
  \/ Start
  \/ Stop
  \/ Seek
  \/ GenerateSamples
  \/ GenEvent
  \/ GenSample

SeekSpec == Init /\ [][SeekNext]_vars

(***************************************************************************)
(* voice_key_on and set_channel_volume applied to a player just created:   *)
(* a note keyed on at a channel volume and a velocity, then the channel    *)
(* volume set again, for instruments of either connection and modulator    *)
(* levels over the six bits of the level register.                         *)
(***************************************************************************)
LevelVelocities == { 1, 2, 8, 16, 32, 50, 64, 100, 126, 127 }

\* what set_channel_volume is passed: the byte of a controller event
LevelVolumes == { 0, 1, 64, 100, 127, 255 }

LevelInstrs ==
  { [flags |-> 0, fine_tuning |-> 128, fixed_note |-> 0,
     voices |-> << [modulator |-> [Op1 EXCEPT !.scale = s, !.level = l],
                    feedback |-> f, carrier |-> Op2, base_note_offset |-> 0],
                   ZeroVoice >>] :
      s \in { 0, 192 }, l \in { 0, 16, 62, 63 }, f \in { 0, 1 } }

\* set_channel_volume(channel 0, volume) with no voice in use, then
\* voice_key_on(channel 0, &instruments[0], 60, 60, velocity)
LevelKeyOn ==
  /\ last.op = "create"
  /\ \E instr \in LevelInstrs, volume \in 0 .. 127, velocity \in LevelVelocities :
       \E r \in { voice_key_on(
                     set_channel_volume([StartOf(pl) EXCEPT !.instruments = (0 :> instr)],
                                        0, volume),
                     0, 0, 60, 60, velocity) } :
         /\ instruments' = r.instruments
         /\ voices' = r.voices
         /\ channels' = r.channels
         /\ chip' = WriteRegs(chip, r.w, 1)
         /\ last' = [Called("key_on", MUSDOOM_OK) EXCEPT !.arg = velocity, !.on = r.on,
                                                          !.w = r.w]
  /\ UNCHANGED << emu, pl, call, ticks, passes, calls, patch >>

\* set_channel_volume(channel 0, volume) with the note held
LevelSetVolume ==
  /\ last.op = "key_on"
  /\ \E volume \in LevelVolumes :
       \E r \in { set_channel_volume(StartOf(pl), 0, volume) } :
         /\ voices' = r.voices
         /\ channels' = r.channels
         /\ chip' = WriteRegs(chip, r.w, 1)
         /\ last' = [Called("volume", MUSDOOM_OK) EXCEPT !.arg = volume, !.w = r.w]
  /\ UNCHANGED << emu, pl, instruments, call, ticks, passes, calls, patch >>

LevelSpec == Init /\ [][LevelKeyOn \/ LevelSetVolume]_vars

(***************************************************************************)
(* The claims.                                                             *)
(***************************************************************************)
InUse == { i \in Voices : voices[i].in_use }

ProcessedEvent(type) == last.op = "event" /\ last.type = type

\* C1: at every sample boundary at most 18 voices are in use, every voice in
\* use has an owning channel and an instrument, and every voice not in use has
\* no owning channel.
C1_VoiceOccupancy ==
  /\ Cardinality(InUse) <= OPL_VOICES
  /\ \A i \in Voices :
       /\ voices[i].in_use => voices[i].channel \in Channels /\ voices[i].current_instr # NULL
       /\ ~voices[i].in_use => voices[i].channel = NULL

\* a note-on that found every voice in use and stole one, for a double-voice
\* instrument
C1_Witness ==
  /\ ProcessedEvent(MUS_EVENT_PLAY_NOTE)
  /\ last.free = 0
  /\ Cardinality(InUse) = OPL_VOICES
  /\ \E i \in Voices : voices[i].current_instr_voice = 1

\* C2: after a Release-Note for (channel, note) has been processed no voice in
\* use has that channel and that key.
C2_NoteOffComplete ==
  ProcessedEvent(MUS_EVENT_RELEASE_NOTE) =>
    \A i \in Voices :
      ~(voices[i].in_use /\ voices[i].channel = last.channel /\ voices[i].key = last.arg)

\* a Release-Note that released the two voices of a double-voice note
C2_Witness == ProcessedEvent(MUS_EVENT_RELEASE_NOTE) /\ last.released = 2

\* C3: the event clock is exact: 140 * next_event_sample + timing_remainder is
\* the sample rate times the delays read since the clock was reset, the
\* remainder is below 140, and an event is dispatched at the sample index that
\* equals next_event_sample.
C3_TimingExact ==
  /\ TICK_HZ * pl.next_event_sample + pl.timing_remainder = pl.sample_rate * ticks
  /\ pl.timing_remainder < TICK_HZ
  /\ pl.next_event_sample = (pl.sample_rate * ticks) \div TICK_HZ
  /\ EventDue => pl.current_sample = pl.next_event_sample

\* an event due after several delays that left a remainder
C3_Witness ==
  /\ call.pc = "generate" /\ EventDue
  /\ ticks >= 3 /\ pl.timing_remainder > 0 /\ pl.next_event_sample > 0

\* C4: every call of generate_samples returns.
C4_GenerateReturns == (call.pc = "generate") ~> (call.pc = "idle")

\* C5: with looping, the second pass over the score issues the same sequence
\* of register writes as the first pass.
C5_LoopFidelity == passes.pass = 3 => passes.second = passes.first

\* C6: a failed musdoom_load leaves the emulator and the player as they were.
C6_FailedLoadKeepsState ==
  [][(last'.op = "load" /\ last'.ret # MUSDOOM_OK) => (emu' = emu /\ pl' = pl)]_vars

\* C7: after a failed musdoom_start, is_playing is false.
C7_FailedStartNotPlaying ==
  (last.op = "start" /\ last.ret # MUSDOOM_OK) => ~musdoom_is_playing

\* C8: start with no MUS score loaded returns NotInitialized.
C8_StartNotInitialized ==
  (last.op = "start" /\ emu.music_data = NoData) => last.ret = MUSDOOM_ERR_NOT_INITIALIZED

EventTypes ==
  { MUS_EVENT_RELEASE_NOTE, MUS_EVENT_PLAY_NOTE, MUS_EVENT_PITCH_BEND,
    MUS_EVENT_SYSTEM_EVENT, MUS_EVENT_CONTROLLER, MUS_EVENT_END_OF_SCORE }

\* C9: an event whose type is none of the six ends the score: playback stops,
\* or restarts when looping.
C9_MalformedEndsScore ==
  (last.op = "event" /\ last.type # -1 /\ last.type \notin EventTypes) =>
    \/ ~pl.playing
    \/ pl.looping /\ pl.position = pl.score /\ pl.current_sample = 0

\* C10: processing an event reads no byte at or beyond score_start + score_len.
C10_NoReadPastScore ==
  last.op = "event" => last.rd < pl.score + pl.score_size

\* C11: load_genmidi with a buffer shorter than a whole lump, or with another
\* signature, fails with InvalidData and leaves the bank and the
\* instruments_loaded flags as they were.
C11_PoorGenmidiRejected ==
  [][(/\ last'.op = "load_genmidi"
      /\ last'.arg # NULL
      /\ (last'.arg < GenmidiFullSize \/ last'.type = 0))
     => (/\ last'.ret = MUSDOOM_ERR_INVALID_DATA
         /\ instruments' = instruments
         /\ pl'.instruments_loaded = pl.instruments_loaded
         /\ emu'.instruments_loaded = emu.instruments_loaded)]_vars

\* C12: a voice that is sounding keeps the patch data it had at its note-on:
\* when a later event updates the volume, pan or frequency of the voices of a
\* channel, the instrument record each of them reads is the record of its
\* note-on, whatever bank was loaded in between.
C12_SoundingVoicesKeepPatch ==
  (last.op = "event"
     /\ last.type \in { MUS_EVENT_PITCH_BEND, MUS_EVENT_SYSTEM_EVENT, MUS_EVENT_CONTROLLER })
  => \A i \in InUse :
       voices[i].channel = last.channel
         => InstrData(instruments, voices[i].current_instr) = patch[i]

\* the state of the program: the two structures, the player's arrays, the chip
Program == << emu, pl, channels, voices, instruments, chip >>

C14_SilenceLeavesPlayerAlone ==
  [][(/\ call.pc = "idle"
      /\ (~emu.playing \/ emu.paused)
      /\ last'.op \in {"silence", "generate"})
     => (/\ last'.op = "silence"
         /\ last'.ret \in 1 .. MaxFrames
         /\ call'.pc = "idle"
         /\ pl' = pl /\ voices' = voices /\ channels' = channels /\ chip' = chip)]_vars

\* a generate_samples during a pause, with a note sounding
C14_Witness ==
  /\ last.op = "silence"
  /\ emu.playing /\ emu.paused /\ pl.playing
  /\ InUse # {}

C16_VolumeClamp ==
  last.op = "set_volume" =>
    musdoom_get_volume = (IF last.arg < 0 THEN 0 ELSE IF last.arg < 127 THEN last.arg ELSE 127)

\* a set_volume above the range, after one below it
C16_Witness ==
  /\ last.op = "set_volume" /\ last.arg > 127
  /\ musdoom_get_volume = 127
  /\ emu.start_volume = 0 /\ emu.playing

\* C17: events are applied in score order, and all due events are processed
\* before a sample is emitted: a frame generated while the player is playing
\* finds next_event_sample > current_sample, and a processed event leaves the
\* cursor beyond the event unless it ended or restarted the score.
C17_DueEventsFirst ==
  [][/\ (call.pc = "generate" /\ last'.op \in {"frame", "generate"} /\ pl.playing)
          => pl.next_event_sample > pl.current_sample
     /\ (last'.op = "event" /\ pl'.playing)
          => (pl'.position > pl.position \/ (pl.looping /\ pl'.position = pl.score))]_vars

\* the first frame of a score, generated after two or more events were
\* processed at sample index 0
C17_Witness ==
  /\ last.op = "frame" /\ pl.playing
  /\ pl.current_sample = 1 /\ pl.next_event_sample >= 1
  /\ pl.position >= pl.score + 4

\* C18: get_position_ms returns 0 whenever no music is loaded, before any
\* load and after an unload, an unload after some playback included.
C18_PositionZeroUnloaded == emu.music_data = NoData => musdoom_get_position_ms = 0

\* the voice the stated policy chooses among the voices of a full pool; a
\* voice that has no channel counts as one of channel 0
Secondaries(pool) == { i \in Voices : pool[i].current_instr_voice # 0 }
LastChannel(pool) ==
  CHOOSE c \in { ChannelIdx(pool[i].channel) : i \in Voices } :
    \A i \in Voices : ChannelIdx(pool[i].channel) <= c
PolicyVictim(pool) ==
  IF Secondaries(pool) # {}
  THEN CHOOSE i \in Secondaries(pool) : \A j \in Secondaries(pool) : i <= j
  ELSE CHOOSE i \in Voices :
         /\ ChannelIdx(pool[i].channel) = LastChannel(pool)
         /\ \A j \in Voices : ChannelIdx(pool[j].channel) = LastChannel(pool) => j <= i

\* C19: when all 18 voices are in use, the victim of a steal is the
\* lowest-indexed voice whose voice of the instrument is not 0 if there is
\* one, and otherwise the highest-indexed voice among those of the highest
\* channel index; exactly that voice is released, and after the allocation
\* that follows 18 voices are in use again.
C19_StealVictim ==
  \A k \in 1 .. Len(last.steals) :
    (\A i \in Voices : last.steals[k].pool[i].in_use) =>
      /\ last.steals[k].victim = PolicyVictim(last.steals[k].pool)
      /\ last.steals[k].left = Voices \ { last.steals[k].victim }
      /\ last.steals[k].used = OPL_VOICES

\* a steal decided by the channels: no voice is a second voice, and the
\* victim is neither the first nor the last voice
C19_Witness ==
  /\ last.op = "event" /\ Len(last.steals) = 1
  /\ Secondaries(last.steals[1].pool) = {}
  /\ last.steals[1].victim \notin {0, OPL_VOICES - 1}
  /\ LastChannel(last.steals[1].pool) > 0

\* a pool of 18 voices of channel 0, each the first voice of its instrument
\* and each with a note of its own
EighteenOnChannel0(pool) ==
  /\ \A i \in Voices : pool[i].in_use /\ pool[i].channel = 0 /\ pool[i].current_instr_voice = 0
  /\ \A i, j \in Voices : i # j => pool[i].note # pool[j].note

\* the note-on that follows 18 note-ons of distinct notes on channel 0 with a
\* single-voice program, and that steals one voice
NineteenthNoteOn ==
  /\ ProcessedEvent(MUS_EVENT_PLAY_NOTE) /\ last.channel = 0
  /\ Len(last.steals) = 1
  /\ EighteenOnChannel0(last.steals[1].pool)
  /\ \A i \in Voices : last.arg # last.steals[1].pool[i].note

\* C20: after 18 note-ons of distinct notes on channel 0 with a single-voice
\* program, the 19th note-on steals the voice at index 0; afterwards 18 voices
\* are in use and none of them has the note the victim had.
C20_NineteenthStealsFirst ==
  NineteenthNoteOn =>
    /\ last.steals[1].victim = 0
    /\ \A i \in Voices : voices[i].in_use /\ voices[i].note # last.steals[1].pool[0].note

\* C20 as amended: the 19th note-on steals the voice at index 17, the last
\* voice of the scan; afterwards 18 voices are in use and none of them has
\* the note the victim had.
C20_NineteenthStealsLast ==
  NineteenthNoteOn =>
    /\ last.steals[1].victim = OPL_VOICES - 1
    /\ \A i \in Voices :
         voices[i].in_use /\ voices[i].note # last.steals[1].pool[OPL_VOICES - 1].note

\* the 19th note-on has stolen a voice and plays its note on it
C20_Witness ==
  /\ NineteenthNoteOn
  /\ voices[last.steals[1].victim].note = last.arg
  /\ voices[last.steals[1].victim].channel = 0

\* C21: a note-on of a double-voice instrument takes its second voice in
\* another slot than its first and never releases the first voice to get it,
\* so after any note-on that keyed a voice on there is an in-use voice with
\* the first voice of the instrument for that channel and key.
C21_FirstVoiceStays ==
  (ProcessedEvent(MUS_EVENT_PLAY_NOTE) /\ last.on # {}) =>
    /\ \E i \in Voices :
         /\ voices[i].in_use /\ voices[i].channel = last.channel
         /\ voices[i].key = last.arg % 128
         /\ voices[i].current_instr_voice = 0
    /\ Len(last.steals) = 2 => last.steals[2].victim # last.steals[1].victim

\* C22: every path that releases a voice clears its instrument pointer: a
\* voice that is not in use has none, and a voice replace_voice has released
\* has none when replace_voice returns, so that set_voice_instrument programs
\* the slot again at its next note-on.
C22_ReleaseClearsInstrument ==
  /\ \A i \in Voices : ~voices[i].in_use => voices[i].current_instr = NULL
  /\ \A k \in 1 .. Len(last.steals) : last.steals[k].instr = NULL

\* the register of a voice: base + index, or base + operator, in its array
VoiceReg(base, i) == BitOr(base + voices[i].index, voices[i].array)
OperatorReg(base, i, op) == BitOr(base + voices[i][op], voices[i].array)

\* C23: at every event boundary each shadow field of an in-use voice equals
\* the last value written to its register: freq for FREQ_LO and FREQ_HI (the
\* key-on bit aside), car_volume and mod_volume for the two LEVEL registers,
\* reg_pan for the pan bits of the FEEDBACK register.
C23_ShadowsMatchRegisters ==
  \A i \in Voices :
    voices[i].in_use =>
      /\ chip[VoiceReg(OPL_REGS_FREQ_1, i)] = voices[i].freq % 256
      /\ BitAnd(chip[VoiceReg(OPL_REGS_FREQ_2, i)], 223) = BitAnd(Shr(voices[i].freq, 8), 223)
      /\ chip[OperatorReg(OPL_REGS_LEVEL, i, "op2")] = voices[i].car_volume
      /\ chip[OperatorReg(OPL_REGS_LEVEL, i, "op1")] = voices[i].mod_volume
      /\ BitAnd(chip[VoiceReg(OPL_REGS_FEEDBACK, i)], 48) = voices[i].reg_pan

\* C24: at every event boundary the key-on bit of the last value written to
\* the FREQ_HI register of a voice is set if and only if the voice is in use,
\* and a voice that goes from in use to free has had freq >> 8, with the
\* key-on bit clear, written to FREQ_HI.
C24_KeyOnBitIsInUse ==
  /\ [](\A i \in Voices :
          voices[i].in_use <=> BitAnd(chip[VoiceReg(OPL_REGS_FREQ_2, i)], 32) # 0)
  /\ [][\A i \in Voices :
          (voices[i].in_use /\ ~voices'[i].in_use) =>
            /\ chip'[VoiceReg(OPL_REGS_FREQ_2, i)] = Shr(voices[i].freq, 8)
            /\ BitAnd(chip'[VoiceReg(OPL_REGS_FREQ_2, i)], 32) = 0]_vars

\* an all-notes-off has released three voices at once, and a fourth voice of
\* another channel sounds on
C24_Witness ==
  /\ ProcessedEvent(MUS_EVENT_SYSTEM_EVENT) /\ last.released = 3
  /\ \E i \in Voices : voices[i].in_use /\ BitAnd(chip[VoiceReg(OPL_REGS_FREQ_2, i)], 32) # 0
  /\ \E i \in Voices : ~voices[i].in_use /\ voices[i].freq > 0

\* the voices the calls of replace_voice of the last event chose
Victims(steals) == { steals[k].victim : k \in 1 .. Len(steals) }

\* C25: allocate returns the lowest-indexed voice that is not in use and
\* marks it in use, or none when all 18 are in use: the voices a note-on keys
\* on without a steal were free, are in use afterwards and are the lowest
\* free ones, and a note-on steals only when no voice is free.  So the
\* note-on that follows an all-notes-off of every sounding note uses slot 0.
C25_AllocateLowestFree ==
  [][(last'.op = "event" /\ last'.type = MUS_EVENT_PLAY_NOTE /\ last'.on # {}) =>
       /\ \A i \in last'.on \ Victims(last'.steals) :
            /\ ~voices[i].in_use /\ voices'[i].in_use
            /\ \A j \in 0 .. (i - 1) : voices[j].in_use \/ j \in last'.on
       /\ last'.steals # << >> => \A j \in Voices : voices[j].in_use \/ j \in last'.on
       /\ (\A j \in Voices : ~voices[j].in_use) => 0 \in last'.on]_vars

\* three notes of channel 2 were released by an all-notes-off and the next
\* note-on of channel 2 has taken slot 0, below a voice of channel 0
C25_Witness ==
  /\ ProcessedEvent(MUS_EVENT_PLAY_NOTE) /\ last.channel = 2 /\ last.on = {0}
  /\ voices[0].key = 67
  /\ ~voices[1].in_use /\ ~voices[2].in_use
  /\ voices[3].in_use /\ voices[3].channel = 0

\* the settings of a channel: program, volume, pan, bend and last velocity
Settings(c) ==
  << channels[c].instrument, channels[c].volume, channels[c].pan, channels[c].bend,
     channels[c].velocity >>

\* C26: after a system event 10 or 11 on channel c no in-use voice is owned
\* by c and every voice released has had its key-off written; the voices of
\* other channels and the settings of every channel are as they were.  A
\* system event other than 10, 11 and 14 changes no voice and no channel.
C26_AllNotesOff ==
  [][(last'.op = "event" /\ last'.type = MUS_EVENT_SYSTEM_EVENT) =>
       /\ last'.arg \in {10, 11} =>
            /\ \A i \in Voices : ~(voices'[i].in_use /\ voices'[i].channel = last'.channel)
            /\ \A i \in Voices :
                 (voices[i].in_use /\ voices[i].channel = last'.channel) =>
                   chip'[VoiceReg(OPL_REGS_FREQ_2, i)] = Shr(voices[i].freq, 8)
            /\ \A i \in Voices :
                 ~(voices[i].in_use /\ voices[i].channel = last'.channel) =>
                   voices'[i] = voices[i]
            /\ \A c \in Channels : Settings(c)' = Settings(c)
       /\ last'.arg \notin {10, 11, 14} => (voices' = voices /\ channels' = channels)]_vars

\* a system event 11 has released the three voices of channel 2 and left the
\* voice of channel 0
C26_Witness ==
  /\ ProcessedEvent(MUS_EVENT_SYSTEM_EVENT) /\ last.arg = 11 /\ last.channel = 2
  /\ last.released = 3
  /\ \E i \in Voices : voices[i].in_use /\ voices[i].channel = 0

\* a system event 12 has been processed with voices in use
C26_WitnessIgnored ==
  /\ ProcessedEvent(MUS_EVENT_SYSTEM_EVENT) /\ last.arg = 12
  /\ \E i \in Voices : voices[i].in_use

\* C27: a controller event with controller number 10 or 11 releases every
\* voice of the channel, and one with controller number 14 resets the channel
\* to volume 100, pan centre and bend 0.
C27_ControllerReleaseAndReset ==
  ProcessedEvent(MUS_EVENT_CONTROLLER) =>
    /\ last.arg \in {10, 11} =>
         \A i \in Voices : ~(voices[i].in_use /\ voices[i].channel = last.channel)
    /\ last.arg = 14 =>
         /\ channels[last.channel].volume = 100
         /\ channels[last.channel].pan = 48
         /\ channels[last.channel].bend = 0

\* the voices in use that channel c owns
Owned(vs, c) == { i \in Voices : vs[i].in_use /\ vs[i].channel = c }

\* the writes of the last event, as a set
Written(w) == { w[k] : k \in 1 .. Len(w) }

\* C28: after a pitch bend with byte v on channel c the bend of c is
\* (v - 128) / 2 truncated toward zero, within -64..63; FREQ_LO and FREQ_HI,
\* with the key-on bit, are written for every in-use voice of c even when the
\* frequency is the same as before, and no other register is written.
C28_PitchBend ==
  [][(last'.op = "event" /\ last'.type = MUS_EVENT_PITCH_BEND) =>
       /\ channels'[last'.channel].bend =
            (IF last'.arg >= 128 THEN (last'.arg - 128) \div 2
             ELSE 0 - ((128 - last'.arg) \div 2))
       /\ channels'[last'.channel].bend \in -64 .. 63
       /\ Written(last'.w) =
            UNION { { << VoiceReg(OPL_REGS_FREQ_1, i), voices'[i].freq % 256 >>,
                      << VoiceReg(OPL_REGS_FREQ_2, i), BitOr(Shr(voices'[i].freq, 8), 32) >> } :
                    i \in Owned(voices, last'.channel) }
       /\ Len(last'.w) = 2 * Cardinality(Owned(voices, last'.channel))]_vars

\* a bend of 128 right after the notes has left the bend of channel 0 at 0
\* and the frequency of its voice as it was, and has written the two
\* registers again, while a voice of channel 1 sounds
C28_Witness ==
  /\ ProcessedEvent(MUS_EVENT_PITCH_BEND) /\ last.arg = 128 /\ last.channel = 0
  /\ channels[0].bend = 0
  /\ Len(last.w) >= 2
  /\ Owned(voices, 1) # {}

\* the arrays of the player, as frequency_for_voice reads them
Arrays == [voices |-> voices, channels |-> channels, instruments |-> instruments]

\* C29: at every event boundary the freq shadow of an in-use voice is the
\* frequency computed from its note, its instrument and the bend of its
\* channel: no event changes a bend without refreshing the owned voices.
C29_FreqFollowsBend ==
  \A i \in Voices : voices[i].in_use => voices[i].freq = frequency_for_voice(Arrays, i)

\* C30: for every note 0..255, base note offset of a signed short, bend in
\* -64..63 and fine tuning 0..255, frequency_for_voice reads frequency_curve
\* within its 668 entries and returns a value of at most 0x1FFF with an
\* octave of at most 7, so that freq >> 8 has the key-on bit clear and
\* (freq >> 8) | 0x20 fits in 8 bits.
C30_FrequencyInRange ==
  last.op = "frequency" =>
    /\ Len(frequency_curve) = 668
    /\ last.arg \in 0 .. 667
    /\ last.ret <= 8191
    /\ last.type <= 7
    /\ BitAnd(Shr(last.ret, 8), 32) = 0
    /\ BitOr(Shr(last.ret, 8), 32) < 256

\* the last entry of the table read in the highest octave it is read in
C30_Witness == last.op = "frequency" /\ last.arg = 667 /\ last.type = 6 /\ last.ret > 6144

\* the highest freq_index there is, 3230: octave 7, read at index 542
C30_WitnessHighest == last.op = "frequency" /\ last.arg = 542 /\ last.type = 7

\* the patch of a voice: the record its instrument pointer points to
PatchOf(i) ==
  InstrData(instruments, voices[i].current_instr).voices[voices[i].current_instr_voice + 1]

\* car_level_new for the note volume of a voice and the volume of its channel
CarLevelNew(i) ==
  LET full == Shr(volume_mapping_table[voices[i].note_volume + 1] * 2
                    * (volume_mapping_table[channels[voices[i].channel].volume + 1] + 1), 9)
  IN  63 - (IF full < 63 THEN full ELSE 63)

\* C31: after set_voice_volume on a voice whose patch has the additive
\* connection (feedback & 1 = 1) and a modulator level other than 0x3f, the
\* low six bits of the mod_volume shadow and of the LEVEL register of op1 are
\* the larger of the modulator level and car_level_new, whatever the velocity
\* and the channel volume, on the first volume set after the instrument is
\* loaded as on the next.
C31_ModulatorFollowsCarrier ==
  \A i \in Voices :
    (/\ last.op \in { "key_on", "volume" }
     /\ voices[i].in_use
     /\ BitAnd(PatchOf(i).feedback, 1) = 1
     /\ PatchOf(i).modulator.level # 63) =>
      LET mod_new == IF PatchOf(i).modulator.level > CarLevelNew(i)
                     THEN PatchOf(i).modulator.level ELSE CarLevelNew(i)
      IN  /\ voices[i].mod_volume % 64 = mod_new
          /\ chip[OperatorReg(OPL_REGS_LEVEL, i, "op1")] % 64 = mod_new

\* the first volume set after the instrument is loaded, with a channel volume
\* of 0: car_level_new is 0x3f, as the carrier level the instrument was
\* loaded with, and the modulator level of the patch is below it
C31_Witness ==
  /\ last.op = "key_on"
  /\ voices[0].in_use
  /\ BitAnd(PatchOf(0).feedback, 1) = 1
  /\ PatchOf(0).modulator.level = 16
  /\ CarLevelNew(0) = 63
  /\ voices[0].mod_volume % 64 = 63

\* the volume set again: the modulator is raised from its own level to that
\* of the carrier
C31_WitnessRaised ==
  /\ last.op = "volume"
  /\ voices[0].in_use
  /\ BitAnd(PatchOf(0).feedback, 1) = 1
  /\ PatchOf(0).modulator.level = 16
  /\ CarLevelNew(0) > 16
  /\ CarLevelNew(0) < 63
  /\ voices[0].mod_volume % 64 = CarLevelNew(0)
  /\ Len(last.w) = 2

\* C32: after any sequence of events every channel has a volume in 0..127
\* and a pan of 0x10, 0x20 or 0x30, and every voice in use has a note volume
\* in 0..127.
C32_VolumeAndPanRanges ==
  /\ \A c \in Channels : channels[c].volume \in 0 .. 127 /\ channels[c].pan \in { 16, 32, 48 }
  /\ \A i \in Voices : voices[i].in_use => voices[i].note_volume \in 0 .. 127

\* a volume controller of 255 has set the volume of channel 0 to 127, with a
\* note of velocity byte 200 held on it and the channel panned right
C32_Witness ==
  /\ ProcessedEvent(MUS_EVENT_CONTROLLER) /\ last.arg = 3
  /\ channels[0].volume = 127
  /\ channels[0].pan = 16
  /\ \E i \in Voices : voices[i].in_use /\ voices[i].channel = 0 /\ voices[i].note_volume = 72

\* C33: after any sequence of events the program of every channel is in
\* 0..127, and the instrument of every voice keyed on for a melodic channel
\* is one of the 128 melodic instruments of the bank.
C33_ProgramInRange ==
  /\ \A c \in Channels : channels[c].instrument \in 0 .. 127
  /\ \A i \in Voices :
       (voices[i].in_use /\ voices[i].channel # MIDI_PERCUSSION_CHAN) =>
         voices[i].current_instr \in 0 .. (GENMIDI_NUM_INSTRS - 1)

\* the MUS channel of the last event: the low four bits of its first byte
MusChannel == pl.data[last.from + 1] % 16

\* the internal channel the claim gives the last event
Internal == IF MusChannel = 15 THEN 9 ELSE IF MusChannel = 9 THEN 15 ELSE MusChannel

\* C34: an event on MUS channel 15 acts on internal channel 9, one on MUS
\* channel 9 on internal channel 15, any other on the channel of its number:
\* the voices it keys on belong to that channel and it changes the state of
\* no other channel.  A play-note on internal channel 9 with a note n in
\* 35..81 keys on percussion[n - 35], with key n and note 60, or fixed_note
\* when the instrument is fixed-note; after a release-note n no voice in use
\* has that channel and key n.
C34_PercussionChannel ==
  /\ [](last.op = "event" =>
          /\ \A i \in last.on : voices[i].channel = Internal
          /\ (last.type = MUS_EVENT_PLAY_NOTE /\ Internal = 9 /\ last.arg % 128 \in 35 .. 81) =>
                \A i \in last.on :
                  /\ voices[i].current_instr = PercSlot((last.arg % 128) - 35)
                  /\ voices[i].key = last.arg % 128
                  /\ voices[i].note =
                       IF BitAnd(InstrData(instruments, voices[i].current_instr).flags,
                                 GENMIDI_FLAG_FIXED) # 0
                       THEN InstrData(instruments, voices[i].current_instr).fixed_note
                       ELSE 60
          /\ last.type = MUS_EVENT_RELEASE_NOTE =>
                \A i \in Voices :
                  ~(voices[i].in_use /\ voices[i].channel = Internal /\ voices[i].key = last.arg))
  /\ [][last'.op = "event" =>
          \A c \in Channels \ { Internal' } : channels'[c] = channels[c]]_vars

\* the kick (percussion[0], fixed note 36) keyed on by note 35 on MUS
\* channel 15 has been released by the release-note 35, while a note played
\* on MUS channel 9 sounds on channel 15
C34_Witness ==
  /\ ProcessedEvent(MUS_EVENT_RELEASE_NOTE) /\ MusChannel = 15 /\ last.arg = 35
  /\ last.released = 1
  /\ \E i \in Voices : voices[i].in_use /\ voices[i].channel = 15 /\ voices[i].key = 60

\* percussion[0] keyed on with its fixed note
C34_WitnessKick ==
  /\ ProcessedEvent(MUS_EVENT_PLAY_NOTE) /\ MusChannel = 15 /\ last.arg = 35
  /\ \E i \in last.on : voices[i].current_instr = PercSlot(0) /\ voices[i].note = 36
                           /\ voices[i].key = 35 /\ voices[i].channel = 9

\* percussion[46], not a fixed-note instrument, keyed on with note 60
C34_WitnessLast ==
  /\ ProcessedEvent(MUS_EVENT_PLAY_NOTE) /\ MusChannel = 15 /\ last.arg = 81
  /\ \E i \in last.on : voices[i].current_instr = PercSlot(46) /\ voices[i].note = 60
                           /\ voices[i].key = 81

\* the last event is a play-note
PlayedNote == last.op = "event" /\ last.type = MUS_EVENT_PLAY_NOTE

\* C35: the velocity of every channel is 127 at creation and changes only
\* when a play-note with a velocity byte on that channel supplies another,
\* the low seven bits of the byte: not at a stop, a start, a seek or a loop
\* restart.  A play-note without a velocity byte keys its voices on with the
\* velocity of its channel.  A play-note whose velocity is 0 keys on no voice
\* and leaves no voice of its channel with its key in use, and every other
\* voice as it was.
C35_VelocityMemory ==
  /\ [](last.op = "create" => \A c \in Channels : channels[c].velocity = 127)
  /\ [][/\ \A c \in Channels :
            channels'[c].velocity # channels[c].velocity =>
              PlayedNote' /\ last'.arg >= 128 /\ c = Internal'
        /\ (PlayedNote' /\ last'.arg >= 128) =>
              channels'[Internal'].velocity = pl'.data[last'.from + 3] % 128
        /\ (PlayedNote' /\ channels'[Internal'].velocity = 0) =>
              /\ last'.on = {}
              /\ \A i \in Voices :
                   voices'[i].in_use <=>
                     /\ voices[i].in_use
                     /\ ~(voices[i].channel = Internal' /\ voices[i].key = last'.arg % 128)
        /\ (PlayedNote' /\ channels'[Internal'].velocity # 0 /\ pl.instruments_loaded) =>
              /\ last'.on # {}
              /\ \A i \in last'.on :
                   voices'[i].note_volume = channels'[Internal'].velocity]_vars

\* the first note of a score, without a velocity byte, played again after a
\* restart of the playback: it takes the velocity 40 of the last note of the
\* pass before
C35_Witness ==
  /\ PlayedNote /\ last.arg = 60 /\ last.from = MUS_HEADER_SIZE
  /\ last.on # {}
  /\ \A i \in last.on : voices[i].note_volume = 40

\* a note held and then played again with velocity 0: a release
C35_WitnessRelease ==
  /\ PlayedNote /\ last.arg = 188 /\ channels[0].velocity = 0
  /\ last.released > 0 /\ last.on = {}

\* C36: as long as no GENMIDI bank is loaded no voice is in use and no step
\* changes a chip register; an event other than the end of the score still
\* moves the cursor past the bytes it read and advances the event clock by
\* its delay.
C36_NoBankNoSound ==
  /\ [](~pl.instruments_loaded => InUse = {})
  /\ [][~pl'.instruments_loaded =>
          /\ chip' = chip
          /\ (last'.op = "event" /\ last'.type \in EventTypes
                 /\ last'.type # MUS_EVENT_END_OF_SCORE) =>
                /\ last'.w = << >>
                /\ pl'.position = last'.rd + 1
                /\ pl'.position > pl.position
                /\ TICK_HZ * pl'.next_event_sample + pl'.timing_remainder
                     = TICK_HZ * pl.next_event_sample + pl.timing_remainder
                         + pl.sample_rate * (ticks' - ticks)]_vars

\* without a bank, a play-note followed by a delay has been read: the clock
\* has advanced and no voice is in use
C36_Witness ==
  /\ ~pl.instruments_loaded
  /\ ProcessedEvent(MUS_EVENT_PLAY_NOTE)
  /\ ticks > 0 /\ pl.next_event_sample > 0
  /\ pl.position = last.rd + 1
  /\ InUse = {}

\* the writes of init_opl_registers to a register
WritesTo(reg) == { k \in DOMAIN init_opl_registers : init_opl_registers[k][1] = reg }

\* C37: after the creation OPL3 mode is enabled: the last value written to
\* register 0x105 during the initialization is 0x01, and the writes
\* 0x04 = 0x60, 0x04 = 0x80 and 0x01 = 0x20 precede it, in that order.
C37_Opl3Enabled ==
  /\ last.op = "create" => chip[261] = 1
  /\ \E k \in WritesTo(261) :
       /\ \A j \in WritesTo(261) : j <= k
       /\ init_opl_registers[k][2] = 1
       /\ \E a, b, c \in 1 .. k :
            /\ a < b /\ b < c
            /\ init_opl_registers[a] = << 4, 96 >>
            /\ init_opl_registers[b] = << 4, 128 >>
            /\ init_opl_registers[c] = << 1, 32 >>

\* C38: after a stop, and after a start or a seek that succeeded, no voice
\* is in use and the key-on bit of no voice is set on the chip.
C38_StoppedIsSilent ==
  (\/ last.op = "stop"
   \/ last.op = "start" /\ last.ret = MUSDOOM_OK
   \/ last.op = "seek" /\ last.arg = MUSDOOM_OK) =>
    /\ InUse = {}
    /\ \A i \in Voices : BitAnd(chip[VoiceReg(OPL_REGS_FREQ_2, i)], 32) = 0

\* the last step processed the end of the score: the event 0x60, or no
\* event with the cursor at the end of the data
EndProcessed == last.op = "event" /\ last.type \in { MUS_EVENT_END_OF_SCORE, -1 }

\* C39: without looping, a playback that was started ends when
\* generate_samples is called again and again: is_playing becomes false, as
\* every event processed moves the cursor forward or ends the playback.
\* With looping, the end of the score leaves the playback on and resets the
\* cursor to the start of the score and current_sample, next_event_sample
\* and timing_remainder to 0.
C39_PlaybackEnds ==
  /\ (emu.playing /\ ~pl.looping) ~> ~musdoom_is_playing
  /\ [][(last'.op = "event" /\ ~pl.looping) =>
           (pl'.position > pl.position \/ ~pl'.playing)]_vars
  /\ [][(EndProcessed' /\ pl.looping) =>
           /\ pl'.playing /\ emu'.playing
           /\ pl'.position = pl.score
           /\ pl'.current_sample = 0
           /\ pl'.next_event_sample = 0
           /\ pl'.timing_remainder = 0]_vars

\* a playback without looping that generate_samples has seen end, after
\* events with delays
C39_Witness ==
  /\ last.op = "generate" /\ ~pl.looping /\ ~emu.playing /\ ~pl.playing
  /\ pl.position > pl.score /\ ticks > 0

\* the end of a looping score after a delay: the clocks are back at 0
C39_WitnessLoop ==
  /\ EndProcessed /\ pl.looping /\ pl.playing
  /\ pl.position = pl.score /\ pl.current_sample = 0 /\ pl.score_size > 1
  /\ passes.pass = 2

\* the step processes a program, volume or pan controller event with the
\* bytes of the event processed just before it
RepeatedController ==
  /\ last.op = "event" /\ last.type = MUS_EVENT_CONTROLLER /\ last.arg \in { 0, 3, 4 }
  /\ last'.op = "event" /\ last'.type = MUS_EVENT_CONTROLLER
  /\ SubSeq(pl'.data, last.from + 1, last.from + 3)
       = SubSeq(pl'.data, last'.from + 1, last'.from + 3)

\* C40: a program, channel-volume or pan controller event applied a second
\* time in succession writes no register and leaves every voice and every
\* channel as the first application left them; and set_voice_instrument
\* with the instrument and instrument voice a voice in use already has
\* changes nothing.
C40_ControllerIdempotent ==
  /\ [][RepeatedController =>
          /\ last'.w = << >> /\ chip' = chip
          /\ voices' = voices
          /\ channels' = channels]_vars
  /\ [](\A i \in InUse :
          set_voice_instrument(StartOf(pl), i, voices[i].current_instr,
                               voices[i].current_instr_voice) = StartOf(pl))

\* a volume controller of 255 applied twice on channel 0 while a note is
\* held on it: the first application wrote the level of the voice, the
\* second nothing
C40_Witness ==
  /\ ProcessedEvent(MUS_EVENT_CONTROLLER) /\ last.arg = 3
  /\ last.from >= MUS_HEADER_SIZE + 7
  /\ SubSeq(pl.data, last.from - 3, last.from) = << 192, 3, 255, 1 >>
  /\ \E i \in InUse : voices[i].channel = 0 /\ voices[i].car_volume % 64 = CarLevelNew(i)
  /\ last.w = << >>
====
